---- MODULE Spec2Model ----
(***************************************************************************)
(* Caching and request-coalescing core of the TuneHub Subsonic proxy       *)
(* (src/server.py): the expiring key-value cache with its three tiers,     *)
(* the pending-request set of the stream endpoint, and the audio file      *)
(* cache on disk with its background downloads and its eviction sweep.     *)
(***************************************************************************)
EXTENDS Integers, Sequences, FiniteSets, TLC

(* ------------------------------ bounds -------------------------------- *)
\* the clock runs from 0 to MaxTime
MaxTime == 2
\* TTLs passed to get_cached are drawn from 1..MaxTTL
MaxTTL == 2
\* at most MaxSets calls of set_cached are made in one run
MaxSets == 2

\* stream requests served in one run
NumRequests == 2
\* polls a waiting request makes before it gives up: max_wait / wait_interval,
\* 35 / 0.5 = 70 in the code
MaxPolls == 2

\* background download threads in one run
NumDownloads == 2
\* chunks a download delivers at most (file sizes are counted in chunks)
MaxChunks == 2
\* the byte budget AUDIO_CACHE_MAX_SIZE is drawn from 0..MaxBudget (in chunks)
MaxBudget == 3
\* files in the audio directory when a sweep is run on its own
NumFiles == 3

(* ------------------------------ values -------------------------------- *)
\* Python's None, as returned by get_cached on a miss
None == "None"
\* the values callers store
Values == {"v1", "v2"}
\* keys as callers pass them: a str, or an int (given by its decimal numeral)
KeyInputs == {<<"str", "a">>, <<"int", "1">>}
\* str(key): a str is itself, an int its decimal numeral
Str(key) == key[2]
TierNames == {"playlists", "streams", "metadata"}
TTLs == 1..MaxTTL

\* song ids and qualities of the stream requests
SongIds == {"netease:1"}
Qualities == {"320k", "flac"}
\* URLs the upstream hands out for a song (a new one on each parse)
Urls == {"u1", "u2"}
\* song metadata built from a parse result: with a title and an artist, or
\* with an empty title
Metadatas == {"titled", "untitled"}
MetaTitle(m) == IF m = "titled" THEN "T" ELSE IF m = "retitled" THEN "T2" ELSE ""
MetaArtist(m) == "A"
\* the metadata the upstream returns for a song
SongInfo(song_id) == "titled"
Requests == 1..NumRequests
Downloads == 1..NumDownloads
\* CACHE_DURATION = 6 * 60 * 60, the default ttl of get_cached
CACHE_DURATION == 6 * 60 * 60
\* ttl of the stream URL tier
StreamTtl == 1800

VARIABLES
    now,                  \* time.time()
    playlist_cache,       \* dict: key -> [data, timestamp]
    stream_url_cache,     \* dict: key -> [data, timestamp]
    song_metadata_cache,  \* dict: key -> [data, timestamp]
    last_call,            \* the cache call just made and what it returned
    sets,                 \* number of set_cached calls made so far
    probe,                \* a client that writes one key and reads it back
                          \* with two TTLs (SpecTtl)
    plreq,                \* the getPlaylists requests: position and local variables
    cache_lock,           \* threading.Lock(): Free, or the thread that holds it
    gp,                   \* the getPlaylist requests: position and local variables
    lyr,                  \* the getLyricsBySongId requests
    saver,                \* a thread inside save_cache()
    boot,                 \* the startup of the process: load_cache and atexit
    rf,                   \* the PlaylistRefresher thread
    pending_requests,     \* set of cache keys being resolved
    req,                  \* the stream requests: position and local variables
    parse_calls,          \* history: calls of parse_song per cache key
    marker_hist,          \* history: per cache key, insertions of the marker
                          \* since its last release
    spawned,              \* download threads started by the requests
    cache_file,           \* server_cache.json: <<>> while missing, else <<content>>
    files,                \* AUDIO_CACHE_DIR: file name -> inode
    inodes,               \* inode -> [data, mtime]
    dl,                   \* the download threads: position and local variables
    budget,               \* AUDIO_CACHE_MAX_SIZE
    dir0                  \* history: the directory when a lone sweep began

tiers == <<playlist_cache, stream_url_cache, song_metadata_cache>>
cacheVars == <<now, tiers, last_call, sets>>
streamVars == <<pending_requests, req, parse_calls, marker_hist, spawned, cache_file>>
diskVars == <<files, inodes, dl, budget, dir0>>
bgVars == <<gp, lyr, saver, boot, rf>>
vars == <<cacheVars, probe, plreq, cache_lock, bgVars, streamVars, diskVars>>

(* ------------------------- dict helpers ------------------------------- *)
EmptyDict == <<>>
DictSet(d, k, v) == [x \in (DOMAIN d) \cup {k} |-> IF x = k THEN v ELSE d[x]]
DictDel(d, k) == [x \in (DOMAIN d) \ {k} |-> d[x]]

(* ------------------------- get_cached / set_cached -------------------- *)
\* isinstance(entry, list) and len(entry) == 2
IsPair(entry) == Len(entry) = 2

\* the expiry test with the boundary on the wrong side
NotExpiredInclusive(timestamp, t, ttl) == t - timestamp <= ttl

\* time.time() - timestamp < ttl
NotExpired(timestamp, t, ttl) == t - timestamp < ttl

\* the age at time t of the entry a call finds under str(key), -1 when the
\* dict has no such entry
Age(cache, key, t) ==
    IF Str(key) \in DOMAIN cache /\ IsPair(cache[Str(key)])
    THEN t - cache[Str(key)][2] ELSE -1

\* get_cached that reports an expired entry absent but leaves it in the dict
get_cached_no_evict(cache, key, ttl, t) ==
    LET k == Str(key) IN
    IF k \in DOMAIN cache /\ IsPair(cache[k]) /\ NotExpired(cache[k][2], t, ttl)
    THEN [ret |-> cache[k][1], cache |-> cache]
    ELSE [ret |-> None, cache |-> cache]

\* get_cached that removes the entry it returns (dict.pop for dict.get)
get_cached_pop(cache, key, ttl, t) ==
    LET k == Str(key) IN
    IF k \in DOMAIN cache /\ IsPair(cache[k])
    THEN [ret |-> IF NotExpired(cache[k][2], t, ttl) THEN cache[k][1] ELSE None,
          cache |-> DictDel(cache, k)]
    ELSE [ret |-> None, cache |-> cache]

\* get_cached(cache, key, ttl) at time t: the value returned and the dict
\* as the call leaves it
get_cached(cache, key, ttl, t) ==
    LET k == Str(key) IN
    IF k \in DOMAIN cache /\ IsPair(cache[k])
    THEN IF NotExpired(cache[k][2], t, ttl)
         THEN [ret |-> cache[k][1], cache |-> cache]
         ELSE [ret |-> None, cache |-> DictDel(cache, k)]
    ELSE [ret |-> None, cache |-> cache]

\* set_cached that replaces the data of an entry but keeps its timestamp
set_cached_stale_stamp(cache, key, data, t) ==
    IF Str(key) \in DOMAIN cache /\ IsPair(cache[Str(key)])
    THEN DictSet(cache, Str(key), <<data, cache[Str(key)][2]>>)
    ELSE DictSet(cache, Str(key), <<data, t>>)

\* set_cached(cache, key, data) at time t: the dict as the call leaves it
set_cached(cache, key, data, t) == DictSet(cache, Str(key), <<data, t>>)

Tier(name) ==
    CASE name = "playlists" -> playlist_cache
      [] name = "streams" -> stream_url_cache
      [] name = "metadata" -> song_metadata_cache

\* the dict of tier `name` as the step leaves it
TierNext(name) ==
    CASE name = "playlists" -> playlist_cache'
      [] name = "streams" -> stream_url_cache'
      [] name = "metadata" -> song_metadata_cache'

\* a set_cached that writes the entry into every tier
TiersAllBecome(name, d) ==
    /\ playlist_cache' = d
    /\ stream_url_cache' = d
    /\ song_metadata_cache' = d

\* the three dicts after `name` became `d`
TiersBecome(name, d) ==
    /\ playlist_cache' = IF name = "playlists" THEN d ELSE playlist_cache
    /\ stream_url_cache' = IF name = "streams" THEN d ELSE stream_url_cache
    /\ song_metadata_cache' = IF name = "metadata" THEN d ELSE song_metadata_cache

(* ------------------------- the audio directory ------------------------ *)
\* get_audio_cache_path(song_id, quality, metadata): the decorated name when
\* the metadata has a title and an artist, the plain name otherwise
get_audio_cache_path(song_id, quality, metadata) ==
    IF metadata # None /\ MetaTitle(metadata) # "" /\ MetaArtist(metadata) # ""
    THEN <<MetaTitle(metadata), MetaArtist(metadata), song_id, quality>>
    ELSE <<song_id, quality>>

\* the download writes to the final name itself
TmpPathIsFinal(path) == path

\* temp_path = audio_path + ".tmp"
TmpPath(path) == Append(path, ".tmp")

\* f.endswith('.tmp')
IsTmp(name) == name[Len(name)] = ".tmp"

\* os.path.getsize(path)
getsize(path) == Len(inodes[files[path]].data)

\* os.path.getmtime(path)
getmtime(path) == inodes[files[path]].mtime

\* is_audio_cached(song_id, quality, metadata)
is_audio_cached(song_id, quality, metadata) ==
    LET path == get_audio_cache_path(song_id, quality, metadata) IN
    path \in DOMAIN files /\ getsize(path) > 0

RECURSIVE SumSizes(_)
SumSizes(names) ==
    IF names = {} THEN 0
    ELSE LET n == CHOOSE x \in names : TRUE IN getsize(n) + SumSizes(names \ {n})

\* get_audio_cache_size(): every file of the directory counts, temporary or not
get_audio_cache_size == SumSizes(DOMAIN files)

\* a sweep that tolerates one unit above the budget
WithinBudgetLax(total_size, max_size) == total_size <= max_size + 1

\* total_size <= AUDIO_CACHE_MAX_SIZE
WithinBudget(total_size, max_size) == total_size <= max_size

\* a sweep that counts every deleted file twice
RemainingTwice(total_size, size) == total_size - 2 * size

\* total_size -= size
Remaining(total_size, size) == total_size - size

\* the files a sweep may delete
SweepCandidates == {n \in DOMAIN files : ~IsTmp(n)}

\* the sort key of a sweep that deletes the newest files first
NewestFirst(m1, m2) == m1 >= m2

\* files.sort(key=lambda x: x[1]): the order of two modification times
OldestFirst(m1, m2) == m1 <= m2

\* the listings (path, mtime, size) of the candidates, sorted by mtime; files
\* of equal mtime come in the order os.listdir gave them, which is any order
SortedListings ==
    LET n == Cardinality(SweepCandidates) IN
    {[i \in 1..n |-> <<o[i], getmtime(o[i]), getsize(o[i])>>] :
        o \in {p \in [1..n -> SweepCandidates] :
                  /\ \A i, j \in 1..n : i # j => p[i] # p[j]
                  /\ \A i, j \in 1..n : i < j => OldestFirst(getmtime(p[i]), getmtime(p[j]))}}

\* the data of a file after a write of one chunk at offset off (the gap a
\* truncation left before the offset reads as zeros)
WriteAt(data, off) ==
    [i \in 1..(IF Len(data) > off THEN Len(data) ELSE off + 1) |->
        IF i = off + 1 THEN 1 ELSE IF i <= Len(data) THEN data[i] ELSE 0]

NewDownload ==
    [pc |-> "idle", song_id |-> "", quality |-> "", metadata |-> None, chunks |-> 0,
     audio_path |-> <<>>, fd |-> <<>>, off |-> 0, total_size |-> 0, listing |-> <<>>,
     outcome |-> "none", removed |-> {}]

DiskEmpty ==
    /\ files = EmptyDict
    /\ inodes = EmptyDict
    /\ dl = [d \in Downloads |-> NewDownload]
    /\ budget = MaxBudget
    /\ dir0 = EmptyDict

(* ------------------------- the stream endpoint: state ---------------- *)
\* cache_key = f"stream_{song_id}_{quality}"
StreamKey(song_id, quality) == <<"stream", song_id, quality>>
StreamKeys == {StreamKey(s, q) : s \in SongIds, q \in Qualities}
cache_key(r) == StreamKey(req[r].song_id, req[r].quality)

NewRequest ==
    [pc |-> "idle", song_id |-> "", quality |-> "", cached_metadata |-> None,
     is_pending |-> FALSE, waited |-> 0, stream_url |-> "", metadata |-> None,
     role |-> "none", resp |-> <<>>]

\* the state of a getPlaylists request before it arrives
NewPlRequest ==
    [pc |-> "idle", platform |-> "", todo |-> <<>>, all_toplists |-> <<>>,
     failed |-> FALSE, resp |-> <<>>]

PlIdle == [i \in Requests |-> NewPlRequest]

\* cache_lock is not held
Free == <<>>

\* a thread: its kind and its number
Thread(kind, i) == <<kind, i>>

\* `with cache_lock:` for a block that is one step of the model: the lock is
\* free when the block is entered and free again when it is left
WithLock == cache_lock = Free

NewGp == [pc |-> "idle", playlist_id |-> <<>>, result |-> <<>>, todo |-> <<>>,
          called |-> FALSE, resp |-> <<>>]

\* obj tells which dict cached_metadata is: none, the one the tier holds
\* ("tier"), one the request made ("own") or one the tier held once ("stale")
NewLyr == [pc |-> "idle", song_id |-> "", cached_metadata |-> None, obj |-> "none",
           resp |-> <<>>]

NewSaver == [pc |-> "idle", by |-> "", todo |-> <<>>, out |-> <<>>, seen |-> {}]

NewRf == [pc |-> "sleep", cycle |-> 0, started |-> 0, removed_count |-> 0,
          platforms |-> <<>>, platform |-> "", toplists |-> <<>>, detail |-> <<>>,
          saves |-> 0, failed |-> {}, stored |-> {}, keys_to_remove |-> {}]

\* no request of the other endpoints has arrived, nobody saves, the process
\* has started and the refresher sleeps
BgIdle ==
    /\ cache_lock = Free
    /\ gp = [i \in Requests |-> NewGp]
    /\ lyr = [i \in Requests |-> NewLyr]
    /\ saver = NewSaver
    /\ boot = "running"
    /\ rf = NewRf

StreamIdle ==
    /\ pending_requests = {}
    /\ req = [r \in Requests |-> NewRequest]
    /\ parse_calls = [k \in StreamKeys |-> 0]
    /\ marker_hist = [k \in StreamKeys |-> [inserted |-> 0, claimed |-> 0]]
    /\ spawned = {}
    /\ cache_file = <<>>

(* ------------------------- cache calls -------------------------------- *)
NoCall == [op |-> "none"]
ProbeOff == [pc |-> "off"]

CacheInit ==
    /\ now = 0
    /\ playlist_cache = EmptyDict
    /\ stream_url_cache = EmptyDict
    /\ song_metadata_cache = EmptyDict
    /\ last_call = NoCall
    /\ sets = 0
    /\ probe = ProbeOff
    /\ StreamIdle
    /\ plreq = PlIdle
    /\ BgIdle
    /\ DiskEmpty

\* a thread runs get_cached(tier, key, ttl)
GetCachedCall(name, key, ttl) ==
    LET r == get_cached(Tier(name), key, ttl, now) IN
    /\ WithLock
    /\ TiersBecome(name, r.cache)
    /\ last_call' = [op |-> "get", tier |-> name, key |-> key, ttl |-> ttl,
                     ret |-> r.ret, age |-> Age(Tier(name), key, now)]
    /\ UNCHANGED <<now, sets, plreq, cache_lock, bgVars, streamVars, diskVars>>

\* a thread runs set_cached(tier, key, data)
SetCachedCall(name, key, data) ==
    /\ sets < MaxSets
    /\ WithLock
    /\ sets' = sets + 1
    /\ TiersBecome(name, set_cached(Tier(name), key, data, now))
    /\ last_call' = [op |-> "set", tier |-> name, key |-> key, data |-> data,
                     age |-> Age(Tier(name), key, now)]
    /\ UNCHANGED <<now, plreq, cache_lock, bgVars, streamVars, diskVars>>

GetCached(name, key, ttl) == GetCachedCall(name, key, ttl) /\ UNCHANGED <<probe, plreq>>

SetCached(name, key, data) == SetCachedCall(name, key, data) /\ UNCHANGED <<probe, plreq>>

\* the clock advances; the call recorded in last_call is no longer the latest
\* event
Tick ==
    /\ now < MaxTime
    /\ now' = now + 1
    /\ last_call' = NoCall
    /\ UNCHANGED <<tiers, sets, probe, cache_lock, bgVars, plreq, streamVars, diskVars>>

CacheNext ==
    \/ \E name \in TierNames, key \in KeyInputs, ttl \in TTLs : GetCached(name, key, ttl)
    \/ \E name \in TierNames, key \in KeyInputs, data \in Values : SetCached(name, key, data)
    \/ Tick

SpecCache == CacheInit /\ [][CacheNext]_vars

(* ---------------- one key written once and read with two TTLs --------- *)
\* the client's inputs: a tier, a key, a value and two TTLs t1 < t2
ProbeInit ==
    /\ now \in 0..MaxTime
    /\ playlist_cache = EmptyDict
    /\ stream_url_cache = EmptyDict
    /\ song_metadata_cache = EmptyDict
    /\ last_call = NoCall
    /\ sets = 0
    /\ StreamIdle
    /\ plreq = PlIdle
    /\ BgIdle
    /\ DiskEmpty
    /\ \E name \in TierNames, key \in KeyInputs, data \in Values, t1 \in TTLs, t2 \in TTLs :
          /\ t1 < t2
          /\ probe = [pc |-> "start", tier |-> name, key |-> key, data |-> data,
                      t1 |-> t1, t2 |-> t2, at |-> now,
                      immediate |-> "unread", short |-> "unread", long |-> "unread",
                      first |-> "none"]

\* set_cached(tier, k, v)
ProbeSet ==
    /\ probe.pc = "start"
    /\ SetCachedCall(probe.tier, probe.key, probe.data)
    /\ probe' = [probe EXCEPT !.pc = "written", !.at = now]

\* get_cached(tier, k, t1) right after the set
ProbeImmediate ==
    /\ probe.pc = "written"
    /\ now = probe.at
    /\ GetCachedCall(probe.tier, probe.key, probe.t1)
    /\ probe' = [probe EXCEPT !.pc = "waiting", !.immediate = last_call'.ret]

\* time passes, up to an age below t2
ProbeWait ==
    /\ probe.pc = "waiting"
    /\ now + 1 - probe.at < probe.t2
    /\ now < MaxTime
    /\ now' = now + 1
    /\ last_call' = NoCall
    /\ UNCHANGED <<tiers, sets, probe, cache_lock, bgVars, plreq, streamVars, diskVars>>

\* get_cached(tier, k, t1) at an age d with t1 <= d < t2
ProbeReadShort ==
    /\ probe.pc = "waiting"
    /\ probe.short = "unread"
    /\ now - probe.at >= probe.t1
    /\ GetCachedCall(probe.tier, probe.key, probe.t1)
    /\ probe' = [probe EXCEPT !.short = last_call'.ret,
                              !.first = IF probe.first = "none" THEN "short" ELSE @]

\* get_cached(tier, k, t2) at an age d with t1 <= d < t2
ProbeReadLong ==
    /\ probe.pc = "waiting"
    /\ probe.long = "unread"
    /\ now - probe.at >= probe.t1
    /\ GetCachedCall(probe.tier, probe.key, probe.t2)
    /\ probe' = [probe EXCEPT !.long = last_call'.ret,
                              !.first = IF probe.first = "none" THEN "long" ELSE @]

ProbeNext ==
    \/ ProbeSet
    \/ ProbeImmediate
    \/ ProbeWait
    \/ ProbeReadShort
    \/ ProbeReadLong

SpecTtl == ProbeInit /\ [][ProbeNext]_vars

(* ------------------------- the stream endpoint: steps ----------------- *)
\* pending_requests.add(cache_key) that adds nothing
AddMarkerForgets(pending, key) == pending

\* pending_requests.add(cache_key)
AddMarker(pending, key) == pending \cup {key}

\* pending_requests.discard(cache_key)
DiscardMarker(pending, key) == pending \ {key}

\* a release written after the try body, which an exception skips
AfterParseNoFinally(outcome) ==
    CASE outcome = "ok" -> "cache_url"
      [] outcome = "empty" -> "release"
      [] outcome = "raise" -> "done"

\* an answer without a URL is cached like any other
AfterParseCachesEmpty(outcome) == IF outcome = "raise" THEN "release" ELSE "cache_url"

\* try: ... finally: where the request goes after parse_song returned a URL
\* ("ok"), returned no URL ("empty") or raised ("raise")
AfterParse(outcome) == IF outcome = "ok" THEN "cache_url" ELSE "release"

\* the marker history after an insertion of `key` (by the claim step or not)
Inserted(key, by_claim) ==
    [marker_hist EXCEPT ![key] = [inserted |-> @.inserted + 1,
                                  claimed |-> @.claimed + (IF by_claim THEN 1 ELSE 0)]]

\* a request for (song_id, quality) arrives:
\* cached_metadata = get_cached(song_metadata_cache, song_id)
ReadMetadata(r, song_id, quality) ==
    LET g == get_cached(song_metadata_cache, <<"str", song_id>>, CACHE_DURATION, now) IN
    /\ req[r].pc = "idle"
    /\ WithLock
    /\ song_metadata_cache' = g.cache
    /\ req' = [req EXCEPT ![r] = [@ EXCEPT !.pc = "disk", !.song_id = song_id,
                                            !.quality = quality,
                                            !.cached_metadata = g.ret]]
    /\ UNCHANGED <<now, playlist_cache, stream_url_cache, last_call, sets, probe, cache_lock, bgVars, plreq,
                   pending_requests, parse_calls, marker_hist, spawned, cache_file,
                   diskVars>>

\* the local audio cache is checked first: the decorated name, then the plain one
CheckDisk(r) ==
    LET s == req[r].song_id
        q == req[r].quality
        m == req[r].cached_metadata IN
    /\ req[r].pc = "disk"
    /\ req' = [req EXCEPT ![r] =
          IF m # None /\ is_audio_cached(s, q, m)
          THEN [@ EXCEPT !.pc = "done",
                         !.resp = <<"file", get_audio_cache_path(s, q, m)>>]
          ELSE IF is_audio_cached(s, q, None)
          THEN [@ EXCEPT !.pc = "done",
                         !.resp = <<"file", get_audio_cache_path(s, q, None)>>]
          ELSE [@ EXCEPT !.pc = "url"]]
    /\ UNCHANGED <<cacheVars, probe, cache_lock, bgVars, plreq, pending_requests, parse_calls, marker_hist,
                   spawned, cache_file, diskVars>>

\* cached_url = get_cached(stream_url_cache, cache_key, ttl=1800)
CheckUrl(r) ==
    LET g == get_cached(stream_url_cache, <<"str", cache_key(r)>>, StreamTtl, now) IN
    /\ req[r].pc = "url"
    /\ WithLock
    /\ stream_url_cache' = g.cache
    /\ req' = [req EXCEPT ![r] =
          IF g.ret # None
          THEN [@ EXCEPT !.pc = "done", !.resp = <<"redirect", g.ret>>]
          ELSE [@ EXCEPT !.pc = "claim"]]
    /\ UNCHANGED <<now, playlist_cache, song_metadata_cache, last_call, sets, probe, cache_lock, bgVars, plreq,
                   pending_requests, parse_calls, marker_hist, spawned, cache_file,
                   diskVars>>

\* a claim whose `with cache_lock:` block is still open when the request goes
\* on to wait or to call the upstream
ClaimBlockOpen(t) == t

\* the `with cache_lock:` block of the claim ends before the request waits or
\* calls the upstream: the lock as thread t leaves it
ClaimBlockEnd(t) == Free

\* with cache_lock: is_pending = cache_key in pending_requests; add it if not
Claim(r) ==
    LET k == cache_key(r)
        is_pending == k \in pending_requests IN
    /\ req[r].pc = "claim"
    /\ cache_lock = Free
    /\ cache_lock' = ClaimBlockEnd(Thread("req", r))
    /\ pending_requests' = IF is_pending THEN pending_requests
                           ELSE AddMarker(pending_requests, k)
    /\ marker_hist' = IF is_pending THEN marker_hist ELSE Inserted(k, TRUE)
    /\ req' = [req EXCEPT ![r] =
          IF is_pending
          THEN [@ EXCEPT !.pc = "poll", !.is_pending = TRUE, !.waited = 0]
          ELSE [@ EXCEPT !.pc = "parse", !.is_pending = FALSE, !.role = "claimed"]]
    /\ UNCHANGED <<cacheVars, probe, bgVars, plreq, parse_calls, spawned, cache_file, diskVars>>

\* a waiter that answers a found URL with an error
PollAnswerError(cached_url) == <<"error", 0>>

\* return redirect(cached_url, code=302)
PollAnswer(cached_url) == <<"redirect", cached_url>>

\* the waiter sleeps wait_interval and polls the stream URL tier
Poll(r) ==
    LET g == get_cached(stream_url_cache, <<"str", cache_key(r)>>, StreamTtl, now) IN
    /\ req[r].pc = "poll"
    /\ WithLock
    /\ req[r].waited < MaxPolls
    /\ stream_url_cache' = g.cache
    /\ req' = [req EXCEPT ![r] =
          IF g.ret # None
          THEN [@ EXCEPT !.pc = "done", !.waited = @ + 1, !.resp = PollAnswer(g.ret)]
          ELSE [@ EXCEPT !.pc = "check", !.waited = @ + 1]]
    /\ UNCHANGED <<now, playlist_cache, song_metadata_cache, last_call, sets, probe, cache_lock, bgVars, plreq,
                   pending_requests, parse_calls, marker_hist, spawned, cache_file,
                   diskVars>>

\* a wait loop without a budget
AfterWaitForever(waited) == "poll"

\* while waited < max_wait: ... else: where a waiter goes that found the marker
\* still there
AfterWait(waited) == IF waited < MaxPolls THEN "poll" ELSE "timeout"

\* a waiter that takes over without looking at the marker
MarkerGoneAlways(pending, key) == TRUE

\* if cache_key not in pending_requests
MarkerGone(pending, key) == key \notin pending

\* with cache_lock: if the marker is gone, put it back and take over
CheckMarker(r) ==
    LET k == cache_key(r) IN
    /\ req[r].pc = "check"
    /\ WithLock
    /\ IF MarkerGone(pending_requests, k)
       THEN /\ pending_requests' = AddMarker(pending_requests, k)
            /\ marker_hist' = Inserted(k, FALSE)
            /\ req' = [req EXCEPT ![r] = [@ EXCEPT !.pc = "parse", !.role = "takeover"]]
       ELSE /\ req' = [req EXCEPT ![r] = [@ EXCEPT !.pc = AfterWait(req[r].waited)]]
            /\ UNCHANGED <<pending_requests, marker_hist>>
    /\ UNCHANGED <<cacheVars, probe, cache_lock, bgVars, plreq, parse_calls, spawned, cache_file, diskVars>>

\* the wait budget is used up: add the marker and go on with an own call
Timeout(r) ==
    LET k == cache_key(r) IN
    /\ req[r].pc = "timeout"
    /\ WithLock
    /\ pending_requests' = AddMarker(pending_requests, k)
    /\ marker_hist' = Inserted(k, FALSE)
    /\ req' = [req EXCEPT ![r] = [@ EXCEPT !.pc = "parse", !.role = "timeout"]]
    /\ UNCHANGED <<cacheVars, probe, cache_lock, bgVars, plreq, parse_calls, spawned, cache_file, diskVars>>

\* song_data = tunehub_client.parse_song(...): a URL and the song's metadata,
\* no URL, or an exception
ParseSong(r, outcome, url) ==
    /\ req[r].pc = "parse"
    /\ parse_calls' = [parse_calls EXCEPT ![cache_key(r)] = @ + 1]
    /\ req' = [req EXCEPT ![r] =
          CASE outcome = "ok" ->
                 [@ EXCEPT !.pc = AfterParse(outcome), !.stream_url = url,
                           !.metadata = SongInfo(req[r].song_id), !.resp = <<"redirect", url>>]
            [] outcome = "empty" ->
                 [@ EXCEPT !.pc = AfterParse(outcome), !.resp = <<"error", 70>>]
            [] outcome = "raise" ->
                 [@ EXCEPT !.pc = AfterParse(outcome), !.resp = <<"error", 0>>]]
    /\ UNCHANGED <<cacheVars, probe, cache_lock, bgVars, plreq, pending_requests, marker_hist, spawned,
                   cache_file, diskVars>>

\* set_cached(stream_url_cache, cache_key, stream_url)
CacheUrl(r) ==
    /\ req[r].pc = "cache_url"
    /\ WithLock
    /\ stream_url_cache' =
          set_cached(stream_url_cache, <<"str", cache_key(r)>>, req[r].stream_url, now)
    /\ req' = [req EXCEPT ![r] = [@ EXCEPT !.pc = "cache_meta"]]
    /\ UNCHANGED <<now, playlist_cache, song_metadata_cache, last_call, sets, probe, cache_lock, bgVars, plreq,
                   pending_requests, parse_calls, marker_hist, spawned, cache_file,
                   diskVars>>

\* set_cached(song_metadata_cache, song_id, metadata)
CacheMetadata(r) ==
    /\ req[r].pc = "cache_meta"
    /\ WithLock
    /\ song_metadata_cache' =
          set_cached(song_metadata_cache, <<"str", req[r].song_id>>, req[r].metadata, now)
    /\ req' = [req EXCEPT ![r] = [@ EXCEPT !.pc = "save"]]
    /\ UNCHANGED <<now, playlist_cache, stream_url_cache, last_call, sets, probe, cache_lock, bgVars, plreq,
                   pending_requests, parse_calls, marker_hist, spawned, cache_file,
                   diskVars>>

\* save_cache(), then the background download thread is started
SaveAndSpawn(r) ==
    /\ req[r].pc = "save"
    /\ WithLock
    /\ cache_file' = <<[playlists |-> playlist_cache, streams |-> stream_url_cache,
                        metadata |-> song_metadata_cache]>>
    /\ spawned' = spawned \cup {[by |-> r, url |-> req[r].stream_url,
                                 song_id |-> req[r].song_id, quality |-> req[r].quality,
                                 metadata |-> req[r].metadata]}
    /\ req' = [req EXCEPT ![r] = [@ EXCEPT !.pc = "release"]]
    /\ UNCHANGED <<cacheVars, probe, cache_lock, bgVars, plreq, pending_requests, parse_calls, marker_hist,
                   diskVars>>

\* finally: with cache_lock: pending_requests.discard(cache_key)
Release(r) ==
    /\ req[r].pc = "release"
    /\ WithLock
    /\ pending_requests' = DiscardMarker(pending_requests, cache_key(r))
    /\ marker_hist' = [marker_hist EXCEPT ![cache_key(r)] =
                          [inserted |-> 0, claimed |-> 0]]
    /\ req' = [req EXCEPT ![r] = [@ EXCEPT !.pc = "done"]]
    /\ UNCHANGED <<cacheVars, probe, cache_lock, bgVars, plreq, parse_calls, spawned, cache_file, diskVars>>

StreamInit ==
    /\ now = 0
    /\ playlist_cache = EmptyDict
    /\ stream_url_cache = EmptyDict
    /\ song_metadata_cache = EmptyDict
    /\ last_call = NoCall
    /\ sets = 0
    /\ probe = ProbeOff
    /\ StreamIdle
    /\ plreq = PlIdle
    /\ BgIdle
    /\ DiskEmpty

StreamNext ==
    \/ \E r \in Requests, s \in SongIds, q \in Qualities : ReadMetadata(r, s, q)
    \/ \E r \in Requests : CheckDisk(r)
    \/ \E r \in Requests : CheckUrl(r)
    \/ \E r \in Requests : Claim(r)
    \/ \E r \in Requests : Poll(r)
    \/ \E r \in Requests : CheckMarker(r)
    \/ \E r \in Requests : Timeout(r)
    \/ \E r \in Requests, o \in {"ok", "empty", "raise"}, u \in Urls : ParseSong(r, o, u)
    \/ \E r \in Requests : CacheUrl(r)
    \/ \E r \in Requests : CacheMetadata(r)
    \/ \E r \in Requests : SaveAndSpawn(r)
    \/ \E r \in Requests : Release(r)

SpecStream == StreamInit /\ [][StreamNext]_vars

\* the steps of request r once it has arrived
RequestStep(r) ==
    \/ CheckDisk(r)
    \/ CheckUrl(r)
    \/ Claim(r)
    \/ Poll(r)
    \/ CheckMarker(r)
    \/ Timeout(r)
    \/ \E o \in {"ok", "empty", "raise"}, u \in Urls : ParseSong(r, o, u)
    \/ CacheUrl(r)
    \/ CacheMetadata(r)
    \/ SaveAndSpawn(r)
    \/ Release(r)

\* every handler thread keeps running, and every upstream call returns or
\* fails (requests.post has a timeout)
SpecStreamFair == SpecStream /\ \A r \in Requests : WF_vars(RequestStep(r))

(* ------------------------- background download and sweep -------------- *)
\* the downloads of one run are for one quality; the metadata decides whether
\* two of them share a path
DiskQualities == {"320k"}

\* download_audio_background(url, song_id, quality, song_metadata) starts:
\* req.get answers ok with a body of `chunks` chunks, or it fails
StartDownload(d, song_id, quality, metadata, chunks, response) ==
    /\ dl[d].pc = "idle"
    /\ dl' = [dl EXCEPT ![d] =
          [@ EXCEPT !.pc = IF response = "ok" THEN "open" ELSE "done",
                    !.outcome = IF response = "ok" THEN "started" ELSE "no_response",
                    !.song_id = song_id, !.quality = quality, !.metadata = metadata,
                    !.chunks = chunks,
                    !.audio_path = get_audio_cache_path(song_id, quality, metadata)]]
    /\ UNCHANGED <<cacheVars, probe, cache_lock, bgVars, plreq, streamVars, files, inodes, budget, dir0>>

\* open(temp_path, 'wb'): creates the file, or truncates the one that is there
Open(d) ==
    LET tmp == TmpPath(dl[d].audio_path)
        id == IF tmp \in DOMAIN files THEN files[tmp] ELSE <<"dl", ToString(d)>> IN
    /\ dl[d].pc = "open"
    /\ files' = DictSet(files, tmp, id)
    /\ inodes' = DictSet(inodes, id, [data |-> <<>>, mtime |-> now])
    /\ dl' = [dl EXCEPT ![d] = [@ EXCEPT !.pc = "write", !.fd = id, !.off = 0]]
    /\ UNCHANGED <<cacheVars, probe, cache_lock, bgVars, plreq, streamVars, budget, dir0>>

\* f.write(chunk) at the thread's own offset
WriteChunk(d) ==
    /\ dl[d].pc = "write"
    /\ dl[d].off < dl[d].chunks
    /\ inodes' = [inodes EXCEPT ![dl[d].fd] =
                     [data |-> WriteAt(@.data, dl[d].off), mtime |-> now]]
    /\ dl' = [dl EXCEPT ![d] = [@ EXCEPT !.off = @ + 1]]
    /\ UNCHANGED <<cacheVars, probe, cache_lock, bgVars, plreq, streamVars, files, budget, dir0>>

\* the byte stream breaks before it is complete: the exception ends the thread
StreamFails(d) ==
    /\ dl[d].pc = "write"
    /\ dl[d].off < dl[d].chunks
    /\ dl' = [dl EXCEPT ![d] = [@ EXCEPT !.pc = "done", !.outcome = "interrupted"]]
    /\ UNCHANGED <<cacheVars, probe, cache_lock, bgVars, plreq, streamVars, files, inodes, budget, dir0>>

\* os.rename(temp_path, audio_path), which raises when temp_path is gone
Rename(d) ==
    LET tmp == TmpPath(dl[d].audio_path) IN
    /\ dl[d].pc = "write"
    /\ dl[d].off = dl[d].chunks
    /\ IF tmp \in DOMAIN files
       THEN /\ files' = IF tmp = dl[d].audio_path THEN files
                        ELSE DictDel(DictSet(files, dl[d].audio_path, files[tmp]), tmp)
            /\ dl' = [dl EXCEPT ![d] = [@ EXCEPT !.pc = "sweep_size",
                                                 !.outcome = "renamed"]]
       ELSE /\ files' = files
            /\ dl' = [dl EXCEPT ![d] = [@ EXCEPT !.pc = "done",
                                                 !.outcome = "rename_failed"]]
    /\ UNCHANGED <<cacheVars, probe, cache_lock, bgVars, plreq, streamVars, inodes, budget, dir0>>

\* cleanup_audio_cache(): total_size = get_audio_cache_size(); return if within
\* the budget
SweepSize(d) ==
    /\ dl[d].pc = "sweep_size"
    /\ dl' = [dl EXCEPT ![d] =
          [@ EXCEPT !.pc = IF WithinBudget(get_audio_cache_size, budget) THEN "done" ELSE "sweep_list",
                    !.total_size = get_audio_cache_size]]
    /\ UNCHANGED <<cacheVars, probe, cache_lock, bgVars, plreq, streamVars, files, inodes, budget, dir0>>

\* cleanup_audio_cache(): list the files that are not temporary, sort by mtime
SweepList(d, listing) ==
    /\ dl[d].pc = "sweep_list"
    /\ listing \in SortedListings
    /\ dl' = [dl EXCEPT ![d] = [@ EXCEPT !.pc = "sweep_rm", !.listing = listing]]
    /\ UNCHANGED <<cacheVars, probe, cache_lock, bgVars, plreq, streamVars, files, inodes, budget, dir0>>

\* cleanup_audio_cache(): one turn of the deletion loop; os.remove raises when
\* the file is gone, which ends the sweep
SweepRemove(d) ==
    /\ dl[d].pc = "sweep_rm"
    /\ IF WithinBudget(dl[d].total_size, budget) \/ dl[d].listing = <<>>
       THEN /\ dl' = [dl EXCEPT ![d] = [@ EXCEPT !.pc = "done"]]
            /\ files' = files
       ELSE LET e == Head(dl[d].listing) IN
            IF e[1] \in DOMAIN files
            THEN /\ files' = DictDel(files, e[1])
                 /\ dl' = [dl EXCEPT ![d] =
                       [@ EXCEPT !.total_size = Remaining(@, e[3]), !.listing = Tail(@),
                                 !.removed = @ \cup {e[1]}]]
            ELSE /\ files' = files
                 /\ dl' = [dl EXCEPT ![d] = [@ EXCEPT !.pc = "done",
                                                      !.outcome = "sweep_aborted"]]
    /\ UNCHANGED <<cacheVars, probe, cache_lock, bgVars, plreq, streamVars, inodes, budget, dir0>>

\* the directory is empty, the budget is an AUDIO_CACHE_MAX_SIZE of the
\* environment, and the download threads are about to be started
DiskInit ==
    /\ now = 0
    /\ playlist_cache = EmptyDict
    /\ stream_url_cache = EmptyDict
    /\ song_metadata_cache = EmptyDict
    /\ last_call = NoCall
    /\ sets = 0
    /\ probe = ProbeOff
    /\ StreamIdle
    /\ plreq = PlIdle
    /\ BgIdle
    /\ files = EmptyDict
    /\ inodes = EmptyDict
    /\ dl = [d \in Downloads |-> NewDownload]
    /\ budget \in 0..MaxBudget
    /\ dir0 = EmptyDict

DiskNext ==
    \/ \E d \in Downloads, s \in SongIds, q \in DiskQualities, m \in Metadatas,
          c \in 0..MaxChunks, response \in {"ok", "failed"} :
          StartDownload(d, s, q, m, c, response)
    \/ \E d \in Downloads : Open(d)
    \/ \E d \in Downloads : WriteChunk(d)
    \/ \E d \in Downloads : StreamFails(d)
    \/ \E d \in Downloads : Rename(d)
    \/ \E d \in Downloads : SweepSize(d)
    \/ \E d \in Downloads : dl[d].pc = "sweep_list" /\
          \E listing \in SortedListings : SweepList(d, listing)
    \/ \E d \in Downloads : SweepRemove(d)
    \/ Tick

SpecDisk == DiskInit /\ [][DiskNext]_vars

(* ------------------------- downloads one after the other --------------- *)
\* the downloads of a run in which each one starts after the one before it
\* has ended
SeqDownloads == 1..(NumDownloads + 1)

\* budgets up to two full files and a half
SeqBudgets == 0..(2 * MaxChunks + 1)

SeqInit ==
    /\ now = 0
    /\ playlist_cache = EmptyDict
    /\ stream_url_cache = EmptyDict
    /\ song_metadata_cache = EmptyDict
    /\ last_call = NoCall
    /\ sets = 0
    /\ probe = ProbeOff
    /\ StreamIdle
    /\ plreq = PlIdle
    /\ BgIdle
    /\ files = EmptyDict
    /\ inodes = EmptyDict
    /\ dl = [d \in SeqDownloads |-> NewDownload]
    /\ budget \in SeqBudgets
    /\ dir0 = EmptyDict

\* the songs downloaded one after the other; each has its own path
SeqSongs == {"netease:1", "netease:2", "qq:3"}

\* download d starts once every download before it has ended
SeqStart(d, song_id, quality, metadata, chunks, response) ==
    /\ \A e \in SeqDownloads : e < d => dl[e].pc = "done"
    /\ StartDownload(d, song_id, quality, metadata, chunks, response)

\* time passes between two downloads: a file's mtime is that of its last
\* write, so time passing inside a download acts as time passing before it
SeqTick ==
    /\ \A d \in SeqDownloads : dl[d].pc \in {"idle", "done"}
    /\ Tick

\* every download of the run gets its response and its whole stream
SeqNext ==
    \/ \E d \in SeqDownloads, s \in SeqSongs, q \in DiskQualities, c \in 0..MaxChunks :
          SeqStart(d, s, q, None, c, "ok")
    \/ \E d \in SeqDownloads : Open(d)
    \/ \E d \in SeqDownloads : WriteChunk(d)
    \/ \E d \in SeqDownloads : Rename(d)
    \/ \E d \in SeqDownloads : SweepSize(d)
    \/ \E d \in SeqDownloads : dl[d].pc = "sweep_list" /\
          \E listing \in SortedListings : SweepList(d, listing)
    \/ \E d \in SeqDownloads : SweepRemove(d)
    \/ SeqTick

SpecSeq == SeqInit /\ [][SeqNext]_vars

(* ------------------------- one sweep on its own ----------------------- *)
\* the names of the files of the directory: finished files and one temporary
OldFiles == {<<"old", ToString(i)>> : i \in 1..NumFiles}
OldTmp == <<"old", "0", ".tmp">>

\* a directory of at most NumFiles finished files with distinct modification
\* times, and possibly a temporary file; download thread 1 has just renamed
\* its file and calls cleanup_audio_cache()
SweepInit ==
    /\ now = NumFiles
    /\ playlist_cache = EmptyDict
    /\ stream_url_cache = EmptyDict
    /\ song_metadata_cache = EmptyDict
    /\ last_call = NoCall
    /\ sets = 0
    /\ probe = ProbeOff
    /\ StreamIdle
    /\ plreq = PlIdle
    /\ BgIdle
    /\ budget \in 0..MaxBudget
    /\ dl = [d \in Downloads |->
                IF d = 1 THEN [NewDownload EXCEPT !.pc = "sweep_size", !.outcome = "renamed"]
                ELSE NewDownload]
    /\ \E size \in [OldFiles \cup {OldTmp} -> 0..MaxChunks],
          age \in [OldFiles -> 0..(NumFiles - 1)] :
          /\ \A f, g \in OldFiles : f # g => age[f] # age[g]
          /\ LET mtime == [f \in OldFiles \cup {OldTmp} |->
                             IF f = OldTmp THEN NumFiles - 1 ELSE age[f]]
                 present == {f \in OldFiles \cup {OldTmp} : size[f] > 0} IN
             /\ files = [f \in present |-> <<"inode", f>>]
             /\ inodes = [i \in {<<"inode", f>> : f \in present} |->
                             [data |-> [c \in 1..size[i[2]] |-> 1], mtime |-> mtime[i[2]]]]
             /\ dir0 = [f \in present |-> [size |-> size[f], mtime |-> mtime[f]]]

SweepNext ==
    \/ \E d \in Downloads : SweepSize(d)
    \/ \E d \in Downloads : dl[d].pc = "sweep_list" /\
          \E listing \in SortedListings : SweepList(d, listing)
    \/ \E d \in Downloads : SweepRemove(d)

SpecSweep == SweepInit /\ [][SweepNext]_vars

(* ------------------------- two sweeps in succession ------------------- *)
\* a directory of at most NumFiles finished files, whose modification times
\* may be equal, and possibly a temporary file; download thread 1 calls
\* cleanup_audio_cache()
TwiceInit ==
    /\ now = NumFiles
    /\ playlist_cache = EmptyDict
    /\ stream_url_cache = EmptyDict
    /\ song_metadata_cache = EmptyDict
    /\ last_call = NoCall
    /\ sets = 0
    /\ probe = ProbeOff
    /\ StreamIdle
    /\ plreq = PlIdle
    /\ BgIdle
    /\ budget \in 0..MaxBudget
    /\ dl = [d \in Downloads |->
                IF d = 1 THEN [NewDownload EXCEPT !.pc = "sweep_size", !.outcome = "renamed"]
                ELSE NewDownload]
    /\ \E size \in [OldFiles \cup {OldTmp} -> 0..MaxChunks], age \in [OldFiles -> 0..1] :
          LET mtime == [f \in OldFiles \cup {OldTmp} |-> IF f = OldTmp THEN 1 ELSE age[f]]
              present == {f \in OldFiles \cup {OldTmp} : size[f] > 0} IN
          /\ files = [f \in present |-> <<"inode", f>>]
          /\ inodes = [i \in {<<"inode", f>> : f \in present} |->
                          [data |-> [c \in 1..size[i[2]] |-> 1], mtime |-> mtime[i[2]]]]
          /\ dir0 = [f \in present |-> [size |-> size[f], mtime |-> mtime[f]]]

\* cleanup_audio_cache() is called a second time, by thread 2, once the first
\* call has returned
SweepAgain ==
    /\ dl[1].pc = "done"
    /\ dl[2].pc = "idle"
    /\ dl' = [dl EXCEPT ![2] = [@ EXCEPT !.pc = "sweep_size", !.outcome = "renamed"]]
    /\ UNCHANGED <<cacheVars, probe, cache_lock, bgVars, plreq, streamVars, files, inodes, budget, dir0>>

TwiceNext ==
    \/ \E d \in Downloads : SweepSize(d)
    \/ \E d \in Downloads : dl[d].pc = "sweep_list" /\
          \E listing \in SortedListings : SweepList(d, listing)
    \/ \E d \in Downloads : SweepRemove(d)
    \/ SweepAgain

SpecTwice == TwiceInit /\ [][TwiceNext]_vars

(* ------------------------- a sweep that meets a failure --------------- *)
\* os.path.getmtime or os.path.getsize raises on a file while the sweep lists
\* the directory: the except clause around the whole body ends the sweep
ListFails(d) ==
    /\ dl[d].pc = "sweep_list"
    /\ SweepCandidates # {}
    /\ dl' = [dl EXCEPT ![d] = [@ EXCEPT !.pc = "done", !.outcome = "sweep_aborted"]]
    /\ UNCHANGED <<cacheVars, probe, cache_lock, bgVars, plreq, streamVars, files, inodes, budget, dir0>>

\* os.remove raises on the file the loop has reached (permission denied, file
\* in use): the except clause around the whole body ends the sweep
RemoveFails(d) ==
    /\ dl[d].pc = "sweep_rm"
    /\ ~WithinBudget(dl[d].total_size, budget)
    /\ dl[d].listing # <<>>
    /\ dl' = [dl EXCEPT ![d] = [@ EXCEPT !.pc = "done", !.outcome = "sweep_aborted"]]
    /\ UNCHANGED <<cacheVars, probe, cache_lock, bgVars, plreq, streamVars, files, inodes, budget, dir0>>

FailNext ==
    \/ SweepNext
    \/ \E d \in Downloads : ListFails(d)
    \/ \E d \in Downloads : RemoveFails(d)

SpecFail == SweepInit /\ [][FailNext]_vars

(* ------------------------- a request after a download ----------------- *)
\* what the metadata tier may hold for a song: what the download was given,
\* a later version with another title, or a record without a title
TierMetadatas == Metadatas \cup {"retitled"}

\* download 1 has completed for a song and a quality, with the metadata its
\* resolver gave it; the metadata tier holds some metadata for the song, or
\* none (expired, or never loaded after a restart)
LookupInit ==
    /\ now = 0
    /\ playlist_cache = EmptyDict
    /\ stream_url_cache = EmptyDict
    /\ last_call = NoCall
    /\ sets = 0
    /\ probe = ProbeOff
    /\ StreamIdle
    /\ plreq = PlIdle
    /\ BgIdle
    /\ budget = MaxBudget
    /\ dir0 = EmptyDict
    /\ \E s \in SongIds, q \in Qualities, wm \in Metadatas :
          LET path == get_audio_cache_path(s, q, wm) IN
          /\ dl = [d \in Downloads |->
                IF d = 1
                THEN [NewDownload EXCEPT !.pc = "done", !.outcome = "renamed",
                         !.song_id = s, !.quality = q, !.metadata = wm,
                         !.chunks = MaxChunks, !.off = MaxChunks, !.audio_path = path,
                         !.fd = <<"dl", "1">>, !.total_size = MaxChunks]
                ELSE NewDownload]
          /\ files = DictSet(EmptyDict, path, <<"dl", "1">>)
          /\ inodes = DictSet(EmptyDict, <<"dl", "1">>,
                              [data |-> [i \in 1..MaxChunks |-> 1], mtime |-> 0])
          /\ \/ song_metadata_cache = EmptyDict
             \/ \E m \in TierMetadatas :
                   song_metadata_cache = set_cached(EmptyDict, <<"str", s>>, m, 0)

\* stream requests arrive and look the song up on disk
LookupNext ==
    \/ \E r \in Requests, s \in SongIds, q \in Qualities : ReadMetadata(r, s, q)
    \/ \E r \in Requests : CheckDisk(r)

SpecLookup == LookupInit /\ [][LookupNext]_vars

(* ------------------------- the getPlaylists endpoint ------------------ *)
\* request.args.get("platform", "all")
PlPlatforms == {"all", "netease", "qq"}

\* ALLOWED_PLAYLISTS: the whitelist of toplist ids of a platform
ALLOWED_PLAYLISTS(p) == IF p = "netease" THEN {"19723756", "3778678"} ELSE {}

\* what tunehub_client.get_toplists(p) returns when it succeeds
Toplists(p) ==
    IF p = "netease"
    THEN <<[platform |-> "netease", id |-> "19723756"],
           [platform |-> "netease", id |-> "3778678"],
           [platform |-> "netease", id |-> "2884035"]>>
    ELSE <<[platform |-> p, id |-> "26"]>>

\* the platforms one request fetches
platforms_to_fetch(platform) ==
    IF platform = "all"
    THEN SelectSeq(<<"netease", "qq">>, LAMBDA p : ALLOWED_PLAYLISTS(p) # {})
    ELSE <<platform>>

\* the whitelist filter
filtered_toplists(all_toplists) ==
    SelectSeq(all_toplists, LAMBDA t : t.id \in ALLOWED_PLAYLISTS(t.platform))

\* a cached list counts as a hit whenever the key is there
TruthyNotNone(data) == data # None

\* if cached_data: neither None nor an empty list
Truthy(data) == data # None /\ data # <<>>

PlKey(platform) == <<"str", <<"playlists_filtered", platform>>>>

\* cached_data = get_cached(playlist_cache, cache_key); a hit is answered
PlCheck(i, platform) ==
    LET g == get_cached(playlist_cache, PlKey(platform), CACHE_DURATION, now) IN
    /\ plreq[i].pc = "idle"
    /\ WithLock
    /\ playlist_cache' = g.cache
    /\ plreq' = [plreq EXCEPT ![i] =
          IF Truthy(g.ret)
          THEN [@ EXCEPT !.pc = "done", !.platform = platform,
                         !.resp = <<"cached", g.ret>>]
          ELSE [@ EXCEPT !.pc = "fetch", !.platform = platform,
                         !.todo = platforms_to_fetch(platform)]]
    /\ UNCHANGED <<now, stream_url_cache, song_metadata_cache, last_call, sets, probe, cache_lock, bgVars,
                   streamVars, diskVars>>

\* one turn of the loop over platforms_to_fetch: get_toplists returns, or it
\* raises and the failure is logged
PlFetch(i, outcome) ==
    /\ plreq[i].pc = "fetch"
    /\ plreq[i].todo # <<>>
    /\ plreq' = [plreq EXCEPT ![i] =
          IF outcome = "ok"
          THEN [@ EXCEPT !.todo = Tail(@),
                         !.all_toplists = @ \o Toplists(Head(plreq[i].todo))]
          ELSE [@ EXCEPT !.todo = Tail(@), !.failed = TRUE]]
    /\ UNCHANGED <<cacheVars, probe, cache_lock, bgVars, streamVars, diskVars>>

\* the whitelist filter, set_cached(playlist_cache, cache_key, filtered_toplists)
\* and the response
PlStore(i) ==
    LET filtered == filtered_toplists(plreq[i].all_toplists) IN
    /\ plreq[i].pc = "fetch"
    /\ plreq[i].todo = <<>>
    /\ WithLock
    /\ playlist_cache' = set_cached(playlist_cache, PlKey(plreq[i].platform), filtered, now)
    /\ plreq' = [plreq EXCEPT ![i] = [@ EXCEPT !.pc = "done",
                                               !.resp = <<"fetched", filtered>>]]
    /\ UNCHANGED <<now, stream_url_cache, song_metadata_cache, last_call, sets, probe, cache_lock, bgVars,
                   streamVars, diskVars>>

PlInit ==
    /\ now = 0
    /\ playlist_cache = EmptyDict
    /\ stream_url_cache = EmptyDict
    /\ song_metadata_cache = EmptyDict
    /\ last_call = NoCall
    /\ sets = 0
    /\ probe = ProbeOff
    /\ plreq = PlIdle
    /\ BgIdle
    /\ StreamIdle
    /\ DiskEmpty

PlNext ==
    \/ \E i \in Requests, platform \in PlPlatforms : PlCheck(i, platform)
    \/ \E i \in Requests, outcome \in {"ok", "failed"} : PlFetch(i, outcome)
    \/ \E i \in Requests : PlStore(i)
    \/ Tick

SpecPlaylists == PlInit /\ [][PlNext]_vars


(* ------------------------- several waiters on one key ----------------- *)
\* the requests of a run with one more request than resolver and waiter
WaitRequests == 1..(NumRequests + 1)

WaitInit ==
    /\ now = 0
    /\ playlist_cache = EmptyDict
    /\ stream_url_cache = EmptyDict
    /\ song_metadata_cache = EmptyDict
    /\ last_call = NoCall
    /\ sets = 0
    /\ probe = ProbeOff
    /\ plreq = PlIdle
    /\ BgIdle
    /\ pending_requests = {}
    /\ req = [r \in WaitRequests |-> NewRequest]
    /\ parse_calls = [k \in StreamKeys |-> 0]
    /\ marker_hist = [k \in StreamKeys |-> [inserted |-> 0, claimed |-> 0]]
    /\ spawned = {}
    /\ cache_file = <<>>
    /\ DiskEmpty

\* all the requests ask for the same song at the same quality
WaitNext ==
    \/ \E r \in WaitRequests, s \in SongIds, q \in DiskQualities : ReadMetadata(r, s, q)
    \/ \E r \in WaitRequests : CheckDisk(r)
    \/ \E r \in WaitRequests : CheckUrl(r)
    \/ \E r \in WaitRequests : Claim(r)
    \/ \E r \in WaitRequests : Poll(r)
    \/ \E r \in WaitRequests : CheckMarker(r)
    \/ \E r \in WaitRequests : Timeout(r)
    \/ \E r \in WaitRequests, o \in {"ok", "empty", "raise"}, u \in Urls : ParseSong(r, o, u)
    \/ \E r \in WaitRequests : CacheUrl(r)
    \/ \E r \in WaitRequests : CacheMetadata(r)
    \/ \E r \in WaitRequests : SaveAndSpawn(r)
    \/ \E r \in WaitRequests : Release(r)

SpecWaiters == WaitInit /\ [][WaitNext]_vars

(* ------------------------- claims on the stream endpoint -------------- *)
\* request r executes the claim step
ClaimStep(r) == req[r].pc = "claim" /\ req'[r].pc # "claim"

\* the requests that are in progress on cache key k
InProgress(k) == {r \in Requests : req[r].pc \notin {"idle", "done"} /\ cache_key(r) = k}

\* the requests that were made for cache key k
RequestsFor(k) == {r \in Requests : req[r].pc # "idle" /\ cache_key(r) = k}

\* C1: of the requests that execute the claim step for one key, at most one
\* observes "not pending" before a release of that key; and a claim step that
\* runs when nothing has inserted the key since its last release (or since the
\* start) observes "not pending" and inserts the key.
C1_ClaimIsExclusive ==
    [][/\ \A k \in StreamKeys : marker_hist'[k].claimed <= 1
       /\ \A r \in Requests : ClaimStep(r) =>
             (marker_hist[cache_key(r)].inserted = 0 =>
                 /\ ~req'[r].is_pending
                 /\ req'[r].role = "claimed"
                 /\ cache_key(r) \in pending_requests')]_vars

\* a request has claimed the key, failed and released it, and a second request
\* for the same key has claimed it again
C1_Witness ==
    \E r1, r2 \in Requests :
        /\ r1 # r2
        /\ cache_key(r1) = cache_key(r2)
        /\ req[r1].pc = "done" /\ req[r1].role = "claimed"
        /\ req[r2].pc = "parse" /\ req[r2].role = "claimed"
        /\ cache_key(r2) \in pending_requests

\* C2: for requests on one key that is neither on disk nor in the stream URL
\* tier at the start, when no upstream call fails and no waiter uses up its
\* wait budget, parse_song is called at most once for the key (exactly once as
\* soon as a request has been answered) and all requests are redirected to the
\* same URL.
C2_ParseSongOnce ==
    \A k \in StreamKeys :
        (/\ \A r \in RequestsFor(k) : req[r].role # "timeout"
         /\ \A r \in RequestsFor(k) : req[r].resp = <<>> \/ req[r].resp[1] = "redirect")
        => /\ parse_calls[k] <= 1
           /\ (\E r \in RequestsFor(k) : req[r].pc = "done") => parse_calls[k] = 1
           /\ \A r1, r2 \in RequestsFor(k) :
                 (req[r1].pc = "done" /\ req[r2].pc = "done") => req[r1].resp = req[r2].resp

\* C3: in every state where no stream request for a key is in progress, the
\* key is not in pending_requests: whoever inserted it (claim, takeover or
\* timeout) has removed it, whether parse_song returned a URL, returned none or
\* raised.
C3_NoStuckMarker ==
    \A k \in StreamKeys : InProgress(k) = {} => k \notin pending_requests

\* all requests are answered, one that had claimed the key got no URL and one
\* that went on after its wait budget got an exception, and no marker is left
C3_Witness ==
    /\ \A r \in Requests : req[r].pc = "done"
    /\ \E r \in Requests : req[r].role = "claimed" /\ req[r].resp = <<"error", 70>>
    /\ \E r \in Requests : req[r].role = "timeout" /\ req[r].resp = <<"error", 0>>
    /\ pending_requests = {}

(* ------------------------- claims on the cache ------------------------ *)
\* the step is a call of get_cached, with the arguments last_call' records
\* (a call that repeats the previous one and changes nothing is no step)
GetStep ==
    /\ last_call'.op = "get"
    /\ now' = now
    /\ (last_call' # last_call \/ tiers' # tiers)

\* the step is a call of set_cached, with the arguments last_call' records
SetStep ==
    /\ last_call'.op = "set"
    /\ sets' = sets + 1

\* the entries of a tier other than key k are what they were
OthersUntouched(name, k) ==
    /\ (DOMAIN TierNext(name)) \ {k} = (DOMAIN Tier(name)) \ {k}
    /\ \A j \in (DOMAIN Tier(name)) \ {k} : TierNext(name)[j] = Tier(name)[j]

\* C4: get_cached(tier, key, ttl) returns the stored value exactly when the
\* tier holds an entry for str(key) with now - writtenAt < ttl, and None when
\* there is no entry or now - writtenAt >= ttl (now - writtenAt = ttl is
\* expired).
C4_GetReturnsFreshValueOnly ==
    [][GetStep =>
            LET c == Tier(last_call'.tier)
                k == Str(last_call'.key)
                ttl == last_call'.ttl IN
            /\ (k \in DOMAIN c /\ now - c[k][2] < ttl) => last_call'.ret = c[k][1]
            /\ (k \notin DOMAIN c) => last_call'.ret = None
            /\ (k \in DOMAIN c /\ now - c[k][2] >= ttl) => last_call'.ret = None]_vars

\* a read issued exactly ttl after the write found the entry and returned None
C4_Witness ==
    /\ last_call.op = "get"
    /\ last_call.age = last_call.ttl
    /\ last_call.ret = None

\* C5 as stated: after set_cached(tier,k,v) an immediate get_cached(tier,k,t1)
\* returns v; at an age d with t1 <= d < t2 and no set in between,
\* get_cached(tier,k,t1) returns None and get_cached(tier,k,t2) returns v,
\* whichever of the two reads is issued first.
C5_Original ==
    /\ probe.immediate \in {"unread", probe.data}
    /\ probe.short \in {"unread", None}
    /\ probe.long \in {"unread", probe.data}

\* C5 amended: after set_cached(tier,k,v) an immediate get_cached(tier,k,t1)
\* returns v; at an age d with t1 <= d < t2 and no set in between,
\* get_cached(tier,k,t1) returns None, and get_cached(tier,k,t2) returns v
\* when it is issued before the get with t1, and None when it is issued after
\* it (the read with t1 has evicted the entry).
C5_TtlPerRead ==
    /\ probe.immediate \in {"unread", probe.data}
    /\ probe.short \in {"unread", None}
    /\ (probe.long # "unread" /\ probe.first = "long") => probe.long = probe.data
    /\ (probe.long # "unread" /\ probe.first = "short") => probe.long = None

\* both reads were made at an age d in [t1, t2), the one with the shorter TTL
\* first, and the one with the longer TTL came back empty
C5_Witness ==
    /\ probe.pc = "waiting"
    /\ probe.immediate = probe.data
    /\ probe.first = "short"
    /\ probe.short = None
    /\ probe.long = None
    /\ now - probe.at >= probe.t1
    /\ now - probe.at < probe.t2

\* C6: when get_cached finds an entry with now - writtenAt >= ttl, the entry is
\* removed from its tier in the same step that returns None, and no other key
\* of the tier is removed or changed.
C6_ExpiredEntryEvicted ==
    [][(/\ GetStep
         /\ Str(last_call'.key) \in DOMAIN Tier(last_call'.tier)
         /\ now - Tier(last_call'.tier)[Str(last_call'.key)][2] >= last_call'.ttl) =>
            /\ Str(last_call'.key) \notin DOMAIN TierNext(last_call'.tier)
            /\ last_call'.ret = None
            /\ OthersUntouched(last_call'.tier, Str(last_call'.key))]_vars

\* an expired entry was found and removed while another key stayed in the tier
C6_Witness ==
    /\ last_call.op = "get"
    /\ last_call.age >= last_call.ttl
    /\ Str(last_call.key) \notin DOMAIN Tier(last_call.tier)
    /\ DOMAIN Tier(last_call.tier) # {}

\* C7: set_cached(tier, key, v) leaves the tier mapping str(key) to
\* [v, time of the call], whatever entry the key had, and changes no other key.
C7_SetStampsNow ==
    [][SetStep =>
            /\ Str(last_call'.key) \in DOMAIN TierNext(last_call'.tier)
            /\ TierNext(last_call'.tier)[Str(last_call'.key)] = <<last_call'.data, now>>
            /\ OthersUntouched(last_call'.tier, Str(last_call'.key))]_vars

\* an entry written earlier was replaced by a later set_cached of its key
C7_Witness ==
    /\ last_call.op = "set"
    /\ last_call.age > 0
    /\ Tier(last_call.tier)[Str(last_call.key)] = <<last_call.data, now>>

(* ------------------------- claims on the audio directory -------------- *)
\* download d is the only download of the run
Alone(d) == \A e \in Downloads \ {d} : dl[e].pc = "idle"

\* download d has renamed its file and has not yet begun the sweep
JustRenamed(d) == dl[d].pc = "sweep_size" /\ dl[d].outcome = "renamed"

\* the bytes a stream of n chunks delivers
Delivered(n) == [i \in 1..n |-> 1]

DlCached(d) == is_audio_cached(dl[d].song_id, dl[d].quality, dl[d].metadata)

\* an interrupted download leaves nothing at the final path
InterruptedLeavesNoAsset(d) ==
    dl[d].outcome = "interrupted" =>
        /\ dl[d].audio_path \notin DOMAIN files
        /\ ~DlCached(d)
        /\ DOMAIN files \subseteq {TmpPath(dl[d].audio_path)}

\* C8 as stated: for one download, an interrupted stream leaves no asset and
\* only the temporary file, and a completed stream leaves is_audio_cached true
\* with exactly the delivered bytes at the final path.
C8_Original ==
    \A d \in Downloads : Alone(d) =>
        /\ InterruptedLeavesNoAsset(d)
        /\ JustRenamed(d) =>
              /\ DlCached(d)
              /\ inodes[files[dl[d].audio_path]].data = Delivered(dl[d].chunks)

\* C8 amended: for one download, an interrupted stream leaves no asset and
\* only the temporary file; a completed stream puts exactly the delivered
\* bytes at the final path, and is_audio_cached is true iff at least one byte
\* was delivered.
C8_RenameAfterCompleteStream ==
    \A d \in Downloads : Alone(d) =>
        /\ InterruptedLeavesNoAsset(d)
        /\ JustRenamed(d) =>
              /\ dl[d].audio_path \in DOMAIN files
              /\ TmpPath(dl[d].audio_path) \notin DOMAIN files
              /\ inodes[files[dl[d].audio_path]].data = Delivered(dl[d].chunks)
              /\ DlCached(d) <=> dl[d].chunks > 0

\* a lone download was interrupted after its first chunk: the partial bytes
\* sit in the temporary file
C8_Witness ==
    \E d \in Downloads :
        /\ Alone(d)
        /\ dl[d].outcome = "interrupted"
        /\ dl[d].off >= 1
        /\ TmpPath(dl[d].audio_path) \in DOMAIN files
        /\ getsize(TmpPath(dl[d].audio_path)) = dl[d].off

\* C9: under every interleaving of downloads, a non-empty file at a final
\* path is complete: it has no hole and no download thread is still writing it.
C9_FinalFilesComplete ==
    \A p \in DOMAIN files : (~IsTmp(p) /\ getsize(p) > 0) =>
        /\ \A i \in 1..getsize(p) : inodes[files[p]].data[i] = 1
        /\ ~\E d \in Downloads : dl[d].pc = "write" /\ dl[d].fd = files[p]

\* the files of the directory a lone sweep started from
Dir0Files == {f \in DOMAIN dir0 : ~IsTmp(f)}

RECURSIVE Dir0Size(_)
Dir0Size(names) ==
    IF names = {} THEN 0
    ELSE LET n == CHOOSE x \in names : TRUE IN dir0[n].size + Dir0Size(names \ {n})

\* the k oldest files of that directory
Oldest(k) ==
    {f \in Dir0Files : Cardinality({g \in Dir0Files : dir0[g].mtime < dir0[f].mtime}) < k}

\* the total the sweep tracks once the k oldest files are gone
TotalAfter(k) == Dir0Size(DOMAIN dir0) - Dir0Size(Oldest(k))

\* the numbers of deletions that bring the tracked total within the budget
Enough == {k \in 0..Cardinality(Dir0Files) : TotalAfter(k) <= budget}

LeastEnough == CHOOSE k \in Enough : \A j \in Enough : k <= j

SweepDone == dl[1].pc = "done"

\* C10: when the files have distinct modification times and their total
\* exceeds the budget, a finished sweep has deleted exactly the k oldest
\* files, k the least number that brings the tracked total within the budget,
\* and every newer file is still there.
C10_SweepDeletesOldestPrefix ==
    (SweepDone /\ Dir0Size(DOMAIN dir0) > budget /\ Enough # {}) =>
        /\ dl[1].removed = Oldest(LeastEnough)
        /\ DOMAIN files = DOMAIN dir0 \ Oldest(LeastEnough)
        /\ dl[1].total_size = TotalAfter(LeastEnough)

\* a sweep of three files deleted the two oldest and kept the newest
C10_Witness ==
    /\ SweepDone
    /\ Cardinality(Dir0Files) = 3
    /\ Dir0Size(DOMAIN dir0) > budget
    /\ LeastEnough = 2
    /\ Cardinality(dl[1].removed) = 2
    /\ Cardinality(DOMAIN files) = 1

\* no download is under way
Quiescent == \A d \in DOMAIN dl : dl[d].pc \in {"idle", "done"}

NoTmpFile == \A f \in DOMAIN files : ~IsTmp(f)

\* the first three downloads wrote full files to three paths at increasing
\* times, under a budget of two files and a half, and nothing else ran
ThreeFullFiles ==
    /\ budget = 2 * MaxChunks + 1
    /\ \A d \in 1..3 : dl[d].outcome = "renamed" /\ dl[d].chunks = MaxChunks
    /\ \A d \in DOMAIN dl : d > 3 => dl[d].pc = "idle"
    /\ \A d, e \in 1..3 : d < e =>
          /\ dl[d].audio_path # dl[e].audio_path
          /\ inodes[dl[d].fd].mtime < inodes[dl[e].fd].mtime

\* C11: after downloads that ran one after the other, each followed by its
\* sweep, and with no temporary file left, the directory is within the budget;
\* three full files written in that mtime order under a budget of two files
\* and a half (40, 40, 40 under 100) cost exactly the first file.
C11_SelfBounding ==
    (Quiescent /\ NoTmpFile) =>
        /\ get_audio_cache_size <= budget
        /\ ThreeFullFiles =>
              /\ dl[1].removed = {} /\ dl[2].removed = {}
              /\ dl[3].removed = {dl[1].audio_path}
              /\ DOMAIN files = {dl[2].audio_path, dl[3].audio_path}
              /\ get_audio_cache_size = 2 * MaxChunks

\* the three full files were written and the third sweep has ended
C11_Witness ==
    /\ Quiescent
    /\ NoTmpFile
    /\ ThreeFullFiles
    /\ dl[3].removed # {}

\* C12: a second cleanup_audio_cache right after the first, with no write in
\* between, deletes no file and leaves the usage as the first run left it,
\* whatever temporary and finished files there were.
C12_SecondSweepDeletesNothing ==
    dl[1].pc = "done" =>
        /\ dl[2].removed = {}
        /\ DOMAIN files = DOMAIN dir0 \ dl[1].removed
        /\ get_audio_cache_size = Dir0Size(DOMAIN dir0) - Dir0Size(dl[1].removed)

\* the first sweep deleted a file and left a directory that is still over the
\* budget (a temporary file fills it); the second sweep has run to its end
C12_Witness ==
    /\ dl[1].pc = "done"
    /\ dl[1].removed # {}
    /\ dl[2].pc = "done"
    /\ dl[2].outcome = "renamed"
    /\ dl[2].total_size > budget

\* download d has run cleanup_audio_cache to its end
Swept(d) == dl[d].pc = "done" /\ dl[d].outcome \in {"renamed", "sweep_aborted"}

\* C13: a sweep never deletes a file whose name ends in '.tmp', and it stops
\* either with the tracked total within the budget or with none of the files
\* it listed left to delete.
C13_SweepSkipsTmpAndStops ==
    \A d \in DOMAIN dl :
        /\ \A p \in dl[d].removed : ~IsTmp(p)
        /\ Swept(d) => (WithinBudget(dl[d].total_size, budget) \/ dl[d].listing = <<>>)

\* C14: a sweep that met a failure on one file has gone on to the other
\* files: it ends with the tracked total within the budget or with no
\* candidate left but the file that failed.
C14_FailureSkipped ==
    \A d \in DOMAIN dl :
        (dl[d].pc = "done" /\ dl[d].outcome = "sweep_aborted") =>
            \/ WithinBudget(dl[d].total_size, budget)
            \/ Cardinality(SweepCandidates) <= 1

\* request r has passed the disk check
PastDisk(r) == req[r].pc \notin {"idle", "disk"}

\* a completed download wrote the asset request r asks for
AssetFor(r) ==
    /\ dl[1].outcome = "renamed"
    /\ dl[1].song_id = req[r].song_id
    /\ dl[1].quality = req[r].quality
    /\ dl[1].audio_path \in DOMAIN files
    /\ getsize(dl[1].audio_path) > 0

\* C15: a request for a song and quality whose asset a completed download
\* wrote is served that file, whatever the metadata tier holds for the song.
C15_LookupByStableKey ==
    \A r \in Requests :
        (PastDisk(r) /\ AssetFor(r)) => req[r].resp = <<"file", dl[1].audio_path>>

\* request r's call of parse_song returns without a URL or raises
ParseFails(r) ==
    /\ req[r].pc = "parse"
    /\ req'[r].pc # "parse"
    /\ req'[r].resp # <<>>
    /\ req'[r].resp[1] = "error"

\* request r, whose resolution failed, leaves the finally block
FailedLeaves(r) ==
    /\ req[r].pc = "release"
    /\ req'[r].pc = "done"
    /\ req[r].resp[1] = "error"

\* every entry of the stream-URL tier and of the metadata tier is what a
\* successful parse_song call of some request returned
OnlyResultsCached ==
    /\ \A k \in DOMAIN stream_url_cache :
          \E r \in Requests : /\ cache_key(r) = k
                              /\ req[r].stream_url \in Urls
                              /\ stream_url_cache[k][1] = req[r].stream_url
    /\ \A s \in DOMAIN song_metadata_cache :
          \E r \in Requests : /\ req[r].song_id = s
                              /\ req[r].stream_url \in Urls
                              /\ song_metadata_cache[s][1] = req[r].metadata

\* C16: a parse_song call that raises or returns no URL writes nothing to
\* the stream-URL tier or the metadata tier and sends the request to the
\* finally block with an error response; leaving it, the request has released
\* the marker; the tiers hold results of successful calls only.
C16_FailureNotCached ==
    [][/\ \A r \in Requests : ParseFails(r) =>
             /\ stream_url_cache' = stream_url_cache
             /\ song_metadata_cache' = song_metadata_cache
             /\ req'[r].pc = "release"
       /\ \A r \in Requests : FailedLeaves(r) =>
             /\ stream_url_cache' = stream_url_cache
             /\ song_metadata_cache' = song_metadata_cache
             /\ cache_key(r) \notin pending_requests'
             /\ req'[r].resp \in {<<"error", 70>>, <<"error", 0>>}
       /\ OnlyResultsCached']_vars

\* one request failed and got its error; the next one for the same key made
\* its own upstream call and is redirected
C16_Witness ==
    \E r1, r2 \in Requests :
        /\ r1 # r2
        /\ cache_key(r1) = cache_key(r2)
        /\ req[r1].pc = "done" /\ req[r1].resp = <<"error", 70>>
        /\ req[r2].pc = "done" /\ req[r2].resp[1] = "redirect"
        /\ req[r2].role = "claimed"
        /\ parse_calls[cache_key(r1)] = 2
        /\ cache_key(r2) \in DOMAIN stream_url_cache

\* request i, one of whose fetches failed, runs the filter and set_cached
FailedStores(i) ==
    /\ plreq[i].pc = "fetch"
    /\ plreq[i].failed
    /\ plreq'[i].pc = "done"

FullList(platform) ==
    filtered_toplists(IF platforms_to_fetch(platform) = <<>> THEN <<>>
                      ELSE Toplists(platforms_to_fetch(platform)[1]))

Answered(r) ==
    /\ req[r].pc = "done"
    /\ req[r].resp # <<>>
    /\ req[r].resp[1] \in {"redirect", "error", "file"}

\* C18: a waiter polls at most max_wait / wait_interval times; one that finds
\* the marker still there after its last poll goes on to its own upstream
\* call; and every request that has arrived is eventually answered with a
\* redirect or an error.
C18_WaitIsBounded ==
    /\ [](\A r \in Requests :
             /\ req[r].waited <= MaxPolls
             /\ req[r].role = "timeout" => req[r].waited = MaxPolls
             /\ req[r].role = "timeout" =>
                   req[r].pc \in {"parse", "cache_url", "cache_meta", "save",
                                  "release", "done"})
    /\ \A r \in Requests : (req[r].pc # "idle") ~> Answered(r)

\* a waiter used up its wait budget, made its own call and was redirected
C18_Witness ==
    \E r \in Requests :
        /\ req[r].role = "timeout"
        /\ req[r].waited = MaxPolls
        /\ req[r].pc = "done"
        /\ req[r].resp[1] = "redirect"

\* waiter r runs the critical section that follows a poll without result
CheckStep(r) == req[r].pc = "check" /\ req'[r].pc # "check"

\* C19: a waiter that finds the marker absent after a poll without result is
\* the first to insert it since its release, inserts it in that same step and
\* goes on as the resolver; a waiter that finds the marker present leaves it
\* alone and keeps waiting (or times out).
C19_OneWaiterTakesOver ==
    [][\A r \in DOMAIN req : CheckStep(r) =>
          IF cache_key(r) \notin pending_requests
          THEN /\ marker_hist[cache_key(r)].inserted = 0
               /\ marker_hist'[cache_key(r)].inserted = 1
               /\ cache_key(r) \in pending_requests'
               /\ req'[r].role = "takeover"
               /\ req'[r].pc = "parse"
               /\ \A w \in DOMAIN req \ {r} : req'[w] = req[w]
          ELSE /\ pending_requests' = pending_requests
               /\ marker_hist' = marker_hist
               /\ req'[r].role = req[r].role
               /\ req'[r].pc \in {"poll", "timeout"}]_vars

\* the resolver failed and released the marker; of the two waiters one took
\* over and the other waits on the new marker
C19_Witness ==
    \E r1, r2, r3 \in DOMAIN req :
        /\ req[r1].pc = "done" /\ req[r1].role = "claimed" /\ req[r1].resp[1] = "error"
        /\ req[r2].role = "takeover" /\ req[r2].pc = "parse"
        /\ req[r3].is_pending /\ req[r3].role = "none"
        /\ req[r3].pc = "poll" /\ req[r3].waited >= 1
        /\ cache_key(r2) \in pending_requests
        /\ cache_key(r1) = cache_key(r2) /\ cache_key(r2) = cache_key(r3)

\* waiter r's poll finds the result and the request returns
PollHit(r) == req[r].pc = "poll" /\ req'[r].pc = "done"

\* C20: a waiter whose poll finds the URL in the stream-URL tier returns a
\* redirect to that URL; the step makes no upstream call, starts no download,
\* and leaves the pending markers and the tier as they are.
C20_WaiterHitTouchesNothing ==
    [][\A r \in Requests : PollHit(r) =>
          /\ cache_key(r) \in DOMAIN stream_url_cache
          /\ req'[r].resp = <<"redirect", stream_url_cache[cache_key(r)][1]>>
          /\ req'[r].role = "none"
          /\ stream_url_cache' = stream_url_cache
          /\ pending_requests' = pending_requests
          /\ marker_hist' = marker_hist
          /\ parse_calls' = parse_calls
          /\ spawned' = spawned]_vars

\* a waiter was redirected to the cached URL while the resolver, which made
\* the only upstream call, still holds the marker
C20_Witness ==
    \E r, w \in Requests :
        /\ cache_key(r) = cache_key(w)
        /\ req[r].role = "claimed" /\ req[r].pc \in {"cache_meta", "save", "release"}
        /\ req[w].is_pending /\ req[w].role = "none" /\ req[w].pc = "done"
        /\ req[w].resp = <<"redirect", req[r].stream_url>>
        /\ cache_key(r) \in pending_requests
        /\ parse_calls[cache_key(r)] = 1

(* ----------------------- the getPlaylist endpoint ---------------------- *)
\* playlist ids the clients ask for: "<platform>_<id>", kept as its two parts
GpPlaylists == {<<"netease", "19723756">>}

\* playlist_id.split("_", 1)
GpPlatform(playlist_id) == playlist_id[1]
GpActualId(playlist_id) == playlist_id[2]

\* cache_key = f"playlist_detail_{playlist_id}"
GpKey(playlist_id) == <<"str", <<"playlist_detail">> \o playlist_id>>

\* the names under which the upstream returns a collection: it may change
\* between two calls
Collections == {"c1", "c2"}

\* the songs of a collection: the id and the basic info of each
CollectionSongs == <<[id |-> "netease:1", song |-> "titled"]>>

\* what get_toplist_detail(platform, actual_id) returns when it succeeds
ToplistDetail(platform, actual_id, name) == [name |-> name, songs |-> CollectionSongs]

\* the "lyrics" of a metadata dict: "" when it has none
Lyrics(m) == IF m \in {"titled+lrc", "unknown+lrc"} THEN "lrc" ELSE ""

\* cache_data = {"id": playlist_id, "name": ..., "songs": ..., "coverUrl": ...}
CacheData(playlist_id, result) == <<playlist_id, result.name, result.songs>>

\* cached_data = get_cached(playlist_cache, cache_key): a hit is answered from
\* the cache
GpCheck(i, playlist_id) ==
    LET g == get_cached(playlist_cache, GpKey(playlist_id), CACHE_DURATION, now) IN
    /\ gp[i].pc = "idle"
    /\ WithLock
    /\ playlist_cache' = g.cache
    /\ gp' = [gp EXCEPT ![i] =
          IF g.ret # None
          THEN [@ EXCEPT !.pc = "done", !.playlist_id = playlist_id,
                         !.resp = <<"playlist", g.ret>>]
          ELSE [@ EXCEPT !.pc = "fetch", !.playlist_id = playlist_id]]
    /\ UNCHANGED <<now, stream_url_cache, song_metadata_cache, last_call, sets, probe,
                   plreq, cache_lock, lyr, saver, boot, rf, streamVars, diskVars>>

\* result = tunehub_client.get_toplist_detail(platform, actual_id): a
\* collection, or an exception that is answered with error 0
GpFetch(i, outcome, name) ==
    LET p == gp[i].playlist_id
        result == ToplistDetail(GpPlatform(p), GpActualId(p), name) IN
    /\ gp[i].pc = "fetch"
    /\ gp' = [gp EXCEPT ![i] =
          IF outcome = "ok"
          THEN [@ EXCEPT !.pc = "song_get", !.called = TRUE, !.result = <<result>>,
                         !.todo = result.songs]
          ELSE [@ EXCEPT !.pc = "done", !.called = TRUE, !.resp = <<"error", 0>>]]
    /\ UNCHANGED <<cacheVars, probe, plreq, cache_lock, lyr, saver, boot, rf,
                   streamVars, diskVars>>

\* for song in songs: existing = get_cached(song_metadata_cache, song_id); the
\* song is stored unless the cache has it with lyrics
GpSongGet(i) ==
    LET song == Head(gp[i].todo)
        g == get_cached(song_metadata_cache, <<"str", song.id>>, CACHE_DURATION, now) IN
    /\ gp[i].pc = "song_get"
    /\ gp[i].todo # <<>>
    /\ WithLock
    /\ song_metadata_cache' = g.cache
    /\ gp' = [gp EXCEPT ![i] =
          IF g.ret = None \/ Lyrics(g.ret) = ""
          THEN [@ EXCEPT !.pc = "song_set"]
          ELSE [@ EXCEPT !.todo = Tail(@)]]
    /\ UNCHANGED <<now, playlist_cache, stream_url_cache, last_call, sets, probe,
                   plreq, cache_lock, lyr, saver, boot, rf, streamVars, diskVars>>

\* set_cached(song_metadata_cache, song_id, song)
GpSongSet(i) ==
    LET song == Head(gp[i].todo) IN
    /\ gp[i].pc = "song_set"
    /\ WithLock
    /\ song_metadata_cache' =
          set_cached(song_metadata_cache, <<"str", song.id>>, song.song, now)
    /\ gp' = [gp EXCEPT ![i] = [@ EXCEPT !.pc = "song_get", !.todo = Tail(@)]]
    /\ UNCHANGED <<now, playlist_cache, stream_url_cache, last_call, sets, probe,
                   plreq, cache_lock, lyr, saver, boot, rf, streamVars, diskVars>>

\* set_cached(playlist_cache, cache_key, cache_data) and the response; the
\* handler does not call save_cache
GpStore(i) ==
    LET cache_data == CacheData(gp[i].playlist_id, gp[i].result[1]) IN
    /\ gp[i].pc = "song_get"
    /\ gp[i].todo = <<>>
    /\ WithLock
    /\ playlist_cache' =
          set_cached(playlist_cache, GpKey(gp[i].playlist_id), cache_data, now)
    /\ gp' = [gp EXCEPT ![i] = [@ EXCEPT !.pc = "done",
                                         !.resp = <<"playlist", cache_data>>]]
    /\ UNCHANGED <<now, stream_url_cache, song_metadata_cache, last_call, sets, probe,
                   plreq, cache_lock, lyr, saver, boot, rf, streamVars, diskVars>>

GpStep(i) ==
    \/ \E p \in GpPlaylists : GpCheck(i, p)
    \/ \E outcome \in {"ok", "raise"}, name \in Collections : GpFetch(i, outcome, name)
    \/ GpSongGet(i)
    \/ GpSongSet(i)
    \/ GpStore(i)

GpNext ==
    \/ \E i \in Requests, p \in GpPlaylists : GpCheck(i, p)
    \/ \E i \in Requests, outcome \in {"ok", "raise"}, name \in Collections :
          GpFetch(i, outcome, name)
    \/ \E i \in Requests : GpSongGet(i)
    \/ \E i \in Requests : GpSongSet(i)
    \/ \E i \in Requests : GpStore(i)
    \/ Tick

SpecGetPlaylist == StreamInit /\ [][GpNext]_vars

\* the requests that called the upstream for playlist p
GpCallers(p) == {i \in Requests : gp[i].playlist_id = p /\ gp[i].called}

\* the requests answered with the collection of playlist p
GpAnswered(p) ==
    {i \in Requests : gp[i].playlist_id = p /\ gp[i].pc = "done"
                      /\ gp[i].resp[1] = "playlist"}

\* C21: for a playlist key that misses the cache, the requests in flight
\* together call get_toplist_detail once, and all of them are answered with
\* the same collection.
C21_ResolvedOnce ==
    \A p \in GpPlaylists :
        /\ Cardinality(GpCallers(p)) <= 1
        /\ \A i, j \in GpAnswered(p) : gp[i].resp = gp[j].resp

(* ------------------------------ save_cache ----------------------------- *)
\* the background threads that call save_cache: the refresher and the exit
\* handler (a stream request's call is the step SaveAndSpawn)
Savers == {"rf", "exit"}

\* thread `by` stands at a call of save_cache
CallsSave(by) ==
    \/ by = "rf" /\ rf.pc \in {"save_first", "save_final"}
    \/ by = "exit" /\ boot = "exiting"

\* the orders in which a dict with the keys S is iterated
Orders(S) ==
    {s \in [1..Cardinality(S) -> S] : \A i, j \in 1..Cardinality(S) : i # j => s[i] # s[j]}

\* the three tiers as they are now
Snapshot ==
    [playlists |-> playlist_cache, streams |-> stream_url_cache,
     metadata |-> song_metadata_cache]

\* with cache_lock: data = {...the three dicts...}; open(CACHE_FILE, 'w');
\* json.dump starts to iterate: the playlists and the streams are written
SaveBegin(by, order) ==
    /\ CallsSave(by)
    /\ saver.pc # "dump"
    /\ cache_lock = Free
    /\ cache_lock' = Thread(by, 0)
    /\ saver' = [pc |-> "dump", by |-> by, todo |-> order,
                 out |-> [playlists |-> playlist_cache, streams |-> stream_url_cache,
                          metadata |-> EmptyDict],
                 seen |-> {Snapshot}]
    /\ UNCHANGED <<cacheVars, probe, plreq, gp, lyr, boot, rf, streamVars, diskVars>>

\* json.dump writes the next entry of the metadata dict as it is now
SaveDump ==
    LET k == Head(saver.todo) IN
    /\ saver.pc = "dump"
    /\ saver.todo # <<>>
    /\ saver' = [saver EXCEPT !.todo = Tail(@),
                              !.out = [@ EXCEPT !.metadata =
                                          DictSet(@, k, song_metadata_cache[k])]]
    /\ UNCHANGED <<cacheVars, probe, plreq, cache_lock, gp, lyr, boot, rf, streamVars,
                   diskVars>>

\* where the refresher goes on after save_cache has returned
AfterSave(pc) == IF pc = "save_first" THEN "platforms" ELSE "sleep"

\* the file is closed and holds what was written; the lock is released and
\* save_cache returns to its caller
SaveEnd ==
    /\ saver.pc = "dump"
    /\ saver.todo = <<>>
    /\ cache_file' = <<saver.out>>
    /\ cache_lock' = Free
    /\ saver' = [saver EXCEPT !.pc = "written"]
    /\ IF saver.by = "rf"
       THEN /\ rf' = [rf EXCEPT !.pc = AfterSave(@), !.saves = @ + 1,
                                !.cycle = IF rf.pc = "save_final" THEN @ + 1 ELSE @]
            /\ UNCHANGED boot
       ELSE /\ boot' = "exited"
            /\ UNCHANGED rf
    /\ UNCHANGED <<cacheVars, probe, plreq, gp, lyr, pending_requests, req, parse_calls,
                   marker_hist, spawned, diskVars>>

(* ----------------------- the getLyricsBySongId endpoint ---------------- *)
\* the songs whose lyrics are asked for
LyrSongs == {"netease:1", "qq:2"}

\* cached_metadata["lyrics"] = lrc_text on a metadata dict
SetLyrics(m) == IF m \in {"titled", "titled+lrc"} THEN "titled+lrc" ELSE "unknown+lrc"

\* {"id": song_id, "artist": artist, "title": title} of a song the cache does
\* not have
UnknownSong == "unknown"

\* the requests whose cached_metadata is the very dict the tier holds for `song`
Aliases(song) == {j \in Requests : lyr[j].song_id = song /\ lyr[j].obj = "tier"}

\* cached_metadata of request i as it is now
LyrObject(i) ==
    IF lyr[i].obj = "tier" THEN song_metadata_cache[lyr[i].song_id][1]
    ELSE lyr[i].cached_metadata

\* cached_metadata = get_cached(song_metadata_cache, song_id); cached lyrics
\* are answered, other songs go to the lyrics API of their platform
LyrRead(i, song_id) ==
    LET g == get_cached(song_metadata_cache, <<"str", song_id>>, CACHE_DURATION, now)
        evicted == song_id \in DOMAIN song_metadata_cache /\ song_id \notin DOMAIN g.cache IN
    /\ lyr[i].pc = "idle"
    /\ WithLock
    /\ song_metadata_cache' = g.cache
    /\ lyr' = [j \in Requests |->
          IF j = i
          THEN IF g.ret # None /\ Lyrics(g.ret) # ""
               THEN [lyr[i] EXCEPT !.pc = "done", !.song_id = song_id,
                                   !.obj = "tier", !.resp = <<"lyrics", Lyrics(g.ret)>>]
               ELSE [lyr[i] EXCEPT !.pc = "fetch", !.song_id = song_id,
                                   !.obj = IF g.ret # None THEN "tier" ELSE "none"]
          ELSE IF evicted /\ j \in Aliases(song_id)
               THEN [lyr[j] EXCEPT !.obj = "stale",
                                   !.cached_metadata = song_metadata_cache[song_id][1]]
               ELSE lyr[j]]
    /\ UNCHANGED <<now, playlist_cache, stream_url_cache, last_call, sets, probe, plreq,
                   cache_lock, gp, saver, boot, rf, streamVars, diskVars>>

\* resp = requests.get(url, headers=headers, timeout=5): lyrics, no lyrics, or
\* an exception that is logged
LyrFetch(i, outcome) ==
    /\ lyr[i].pc = "fetch"
    /\ lyr' = [lyr EXCEPT ![i] =
          IF outcome = "lyric"
          THEN [@ EXCEPT !.pc = "mutate"]
          ELSE [@ EXCEPT !.pc = "done", !.resp = <<"lyrics", "">>]]
    /\ UNCHANGED <<cacheVars, probe, plreq, cache_lock, gp, saver, boot, rf, streamVars,
                   diskVars>>

\* if not cached_metadata: cached_metadata = {...};
\* cached_metadata["lyrics"] = lrc_text: the dict that get_cached returned is
\* the dict the tier holds, and it is changed where it is, without cache_lock
LyrMutate(i) ==
    LET song == lyr[i].song_id IN
    /\ lyr[i].pc = "mutate"
    /\ IF lyr[i].obj = "tier"
       THEN /\ song_metadata_cache' =
                  [song_metadata_cache EXCEPT ![song] = <<SetLyrics(@[1]), @[2]>>]
            /\ lyr' = [lyr EXCEPT ![i] = [@ EXCEPT !.pc = "store"]]
       ELSE /\ lyr' = [lyr EXCEPT ![i] =
                  [@ EXCEPT !.pc = "store", !.obj = IF @ = "none" THEN "own" ELSE @,
                            !.cached_metadata =
                                SetLyrics(IF lyr[i].obj = "none" THEN UnknownSong ELSE @)]]
            /\ UNCHANGED song_metadata_cache
    /\ saver' = IF saver.pc = "dump"
                THEN [saver EXCEPT !.seen = @ \cup
                         {[playlists |-> playlist_cache, streams |-> stream_url_cache,
                           metadata |-> song_metadata_cache']}]
                ELSE saver
    /\ UNCHANGED <<now, playlist_cache, stream_url_cache, last_call, sets, probe, plreq,
                   cache_lock, gp, boot, rf, streamVars, diskVars>>

\* set_cached(song_metadata_cache, song_id, cached_metadata) and the response
LyrStore(i) ==
    LET song == lyr[i].song_id
        mine == LyrObject(i) IN
    /\ lyr[i].pc = "store"
    /\ WithLock
    /\ song_metadata_cache' = set_cached(song_metadata_cache, <<"str", song>>, mine, now)
    /\ lyr' = [j \in Requests |->
          IF j = i
          THEN [lyr[i] EXCEPT !.pc = "done", !.obj = "tier",
                              !.resp = <<"lyrics", Lyrics(mine)>>]
          ELSE IF j \in Aliases(song) /\ lyr[i].obj # "tier"
               THEN [lyr[j] EXCEPT !.obj = "stale",
                                   !.cached_metadata = song_metadata_cache[song][1]]
               ELSE lyr[j]]
    /\ UNCHANGED <<now, playlist_cache, stream_url_cache, last_call, sets, probe, plreq,
                   cache_lock, gp, saver, boot, rf, streamVars, diskVars>>

\* the metadata tier before the requests: the songs that were streamed or
\* listed before, none with lyrics
LyrTiers ==
    {[s \in S |-> <<"titled", 0>>] : S \in SUBSET LyrSongs}

\* lyrics requests arrive while the refresher is about to save at the end of
\* a cycle
LyrInit ==
    /\ now = 0
    /\ playlist_cache = EmptyDict
    /\ stream_url_cache = EmptyDict
    /\ song_metadata_cache \in LyrTiers
    /\ last_call = NoCall
    /\ sets = 0
    /\ probe = ProbeOff
    /\ StreamIdle
    /\ plreq = PlIdle
    /\ cache_lock = Free
    /\ gp = [i \in Requests |-> NewGp]
    /\ lyr = [i \in Requests |-> NewLyr]
    /\ saver = NewSaver
    /\ boot = "running"
    /\ rf = [NewRf EXCEPT !.pc = "save_final"]
    /\ DiskEmpty

LyrNext ==
    \/ \E i \in Requests, song_id \in LyrSongs : LyrRead(i, song_id)
    \/ \E i \in Requests, outcome \in {"lyric", "none"} : LyrFetch(i, outcome)
    \/ \E i \in Requests : LyrMutate(i)
    \/ \E i \in Requests : LyrStore(i)
    \/ \E by \in Savers, order \in Orders(DOMAIN song_metadata_cache) : SaveBegin(by, order)
    \/ SaveDump
    \/ SaveEnd

SpecLyrics == LyrInit /\ [][LyrNext]_vars

\* C22: the file that save_cache has written equals the three tiers as they
\* were at one single instant between the start and the end of the save.
C22_CoherentSnapshot ==
    saver.pc = "written" => cache_file[1] \in saver.seen

\* C26: every change of a cache tier while requests are served is made by a
\* step that holds cache_lock (get_cached's eviction or set_cached); a value
\* that get_cached returned is never changed in place.
C26_MutationUnderLock ==
    [][tiers' # tiers =>
          /\ cache_lock = Free
          /\ \E i \in Requests : lyr[i].pc \in {"idle", "store"} /\ lyr'[i].pc # lyr[i].pc]_vars

(* ------------------------------ load_cache ----------------------------- *)
\* str.startswith on the keys of the playlist tier: a key is kept as its
\* family and its rest, and these are the (family, prefix) pairs for which
\* key.startswith(prefix) holds
PrefixTable ==
    {<<"playlists_filtered", "playlists_filtered_">>, <<"playlists_filtered", "playlists_">>,
     <<"netease", "netease_">>, <<"qq", "qq_">>, <<"kuwo", "kuwo_">>}

\* a purge that matches no key
HasPrefixNever(k, prefix) == FALSE

\* k.startswith(prefix)
HasPrefix(k, prefix) == <<k[1], prefix>> \in PrefixTable

\* a tier bound to an object that is not a dict (None, a str, a list): kept
\* apart from every dict, the empty one included, by a key no dict has
NoKey(name) == IF name = "playlists" THEN <<"not a dict">> ELSE "not a dict"

NotADict(name, kind) == [k \in {NoKey(name)} |-> kind]

IsDict(name, cache) == NoKey(name) \notin DOMAIN cache

\* the filtered listing a previous run cached under a previous allow-list
StaleList == <<[platform |-> "netease", id |-> "2884035"]>>

\* keys a previous run can have left in the playlists section
FilePlaylistKeys ==
    {PlKey("all")[2], PlKey("netease")[2], GpKey(<<"netease", "19723756">>)[2],
     <<"netease", "19723756">>}

FileEntry(k) == IF k[1] = "playlists_filtered" THEN <<StaleList, 0>> ELSE <<"v1", 0>>

\* a section of the file: absent, a mapping, or a value that is no mapping
PlaylistSections ==
    {<<"absent">>, <<"null">>, <<"str">>, <<"list">>}
        \cup {<<"map", [k \in S |-> FileEntry(k)]>> : S \in SUBSET FilePlaylistKeys}

StreamSections ==
    {<<"absent">>, <<"str">>, <<"map", [k \in {StreamKey("netease:1", "320k")} |-> <<"u1", 0>>]>>}

MetadataSections ==
    {<<"absent">>, <<"null">>, <<"map", [k \in {"netease:1"} |-> <<"titled", 0>>]>>}

\* what the file can hold at startup: nothing readable, text that is no JSON,
\* a JSON value that is no object, or an object with its sections
FileDocs ==
    {[json |-> j] : j \in {"unreadable", "invalid", "list", "scalar"}}
        \cup {[json |-> "object", playlists |-> p, streams |-> s, metadata |-> m] :
                 p \in PlaylistSections, s \in StreamSections, m \in MetadataSections}

\* json.load(f): what save_cache wrote is an object of three mappings
json_load(doc) ==
    IF "json" \in DOMAIN doc THEN doc
    ELSE [json |-> "object", playlists |-> <<"map", doc.playlists>>,
          streams |-> <<"map", doc.streams>>, metadata |-> <<"map", doc.metadata>>]

\* data.get(name, {}): the section whatever it is, {} when it is absent
DataGet(name, section) ==
    CASE section[1] = "absent" -> EmptyDict
      [] section[1] = "map" -> section[2]
      [] OTHER -> NotADict(name, section[1])

\* keys_to_remove = [k for k in playlist_cache if k.startswith(
\* 'playlists_filtered_')]; del playlist_cache[k] for each. On an object that
\* is no dict the loop raises or finds nothing, and the object stays bound.
Purged(cache) ==
    IF IsDict("playlists", cache)
    THEN [k \in {x \in DOMAIN cache : ~HasPrefix(x, "playlists_filtered_")} |-> cache[k]]
    ELSE cache

\* a load that stamps every entry it restores with the time of the restart
load_cache_restamped(file, old) ==
    IF file = <<>> THEN old
    ELSE LET data == json_load(file[1])
             Restamped(cache) == [k \in DOMAIN cache |-> <<cache[k][1], now>>] IN
         IF data.json # "object" THEN old
         ELSE [playlists |-> Restamped(Purged(DataGet("playlists", data.playlists))),
               streams |-> Restamped(DataGet("streams", data.streams)),
               metadata |-> Restamped(DataGet("metadata", data.metadata))]

\* load_cache(): the three tiers as it leaves them. Every exception is caught
\* and logged: open or json.load raising, and data.get on a value that is no
\* object, happen before the first assignment.
load_cache(file, old) ==
    IF file = <<>> THEN old
    ELSE LET data == json_load(file[1]) IN
         IF data.json # "object" THEN old
         ELSE [playlists |-> Purged(DataGet("playlists", data.playlists)),
               streams |-> DataGet("streams", data.streams),
               metadata |-> DataGet("metadata", data.metadata)]

\* if not _is_werkzeug_reloader_parent: load_cache(); atexit.register(save_cache)
LoadCache ==
    LET loaded == load_cache(cache_file, Snapshot) IN
    /\ boot = "start"
    /\ boot' = "running"
    /\ playlist_cache' = loaded.playlists
    /\ stream_url_cache' = loaded.streams
    /\ song_metadata_cache' = loaded.metadata
    /\ UNCHANGED <<now, last_call, sets, probe, plreq, cache_lock, gp, lyr, saver, rf,
                   streamVars, diskVars>>

\* the process starts: the tiers are the empty dicts of the module, and the
\* data directory holds no file or any of FileDocs
LoadInit ==
    /\ now = 0
    /\ playlist_cache = EmptyDict
    /\ stream_url_cache = EmptyDict
    /\ song_metadata_cache = EmptyDict
    /\ last_call = NoCall
    /\ sets = 0
    /\ probe = ProbeOff
    /\ pending_requests = {}
    /\ req = [r \in Requests |-> NewRequest]
    /\ parse_calls = [k \in StreamKeys |-> 0]
    /\ marker_hist = [k \in StreamKeys |-> [inserted |-> 0, claimed |-> 0]]
    /\ spawned = {}
    /\ cache_file \in {<<>>} \cup {<<doc>> : doc \in FileDocs}
    /\ plreq = PlIdle
    /\ cache_lock = Free
    /\ gp = [i \in Requests |-> NewGp]
    /\ lyr = [i \in Requests |-> NewLyr]
    /\ saver = NewSaver
    /\ boot = "start"
    /\ rf = NewRf
    /\ DiskEmpty

\* requests are served once the module is loaded; the first client asks for
\* the listing
Serving == boot = "running" /\ IsDict("playlists", playlist_cache)

LoadNext ==
    \/ LoadCache
    \/ Serving /\ \E platform \in PlPlatforms : PlCheck(1, platform)
    \/ Serving /\ \E outcome \in {"ok", "failed"} : PlFetch(1, outcome)
    \/ Serving /\ PlStore(1)

SpecLoad == LoadInit /\ [][LoadNext]_vars

\* the file is missing, unreadable or malformed: no JSON, no object at the top,
\* or a section that is there and is no mapping
FileBad ==
    \/ cache_file = <<>>
    \/ cache_file[1].json # "object"
    \/ \E name \in TierNames : json_load(cache_file[1])[name][1] \notin {"absent", "map"}

\* load_cache has returned and no request has touched the tiers yet
JustLoaded == boot = "running" /\ plreq[1].pc = "idle"

\* C23: load_cache returns whatever the file holds, and after a missing,
\* unreadable or malformed file all three tiers are empty dicts.
C23_EmptyAfterBadFile ==
    JustLoaded /\ FileBad =>
        /\ playlist_cache = EmptyDict
        /\ stream_url_cache = EmptyDict
        /\ song_metadata_cache = EmptyDict

\* the sections of a file whose three sections are mappings or absent
FileTier(name) == DataGet(name, json_load(cache_file[1])[name])

\* C24: after load_cache the playlist tier has no 'playlists_filtered_*' key
\* left from the file and every other entry of the file is in its tier
\* unchanged; a listing request after the restart is never answered with a
\* listing cached before it.
C24_PurgedOnLoad ==
    /\ JustLoaded /\ ~FileBad =>
          /\ \A k \in DOMAIN playlist_cache : ~HasPrefix(k, "playlists_filtered_")
          /\ \A k \in DOMAIN FileTier("playlists") :
                 ~(k[1] = "playlists_filtered") =>
                     k \in DOMAIN playlist_cache /\ playlist_cache[k] = FileTier("playlists")[k]
          /\ stream_url_cache = FileTier("streams")
          /\ song_metadata_cache = FileTier("metadata")
    /\ boot = "running" /\ plreq[1].pc = "done" => plreq[1].resp[2] # StaleList

\* a file with a stale listing and another playlist entry was loaded: the
\* listing is gone and the other entry is there
C24_Witness ==
    /\ JustLoaded /\ ~FileBad
    /\ PlKey("all")[2] \in DOMAIN FileTier("playlists")
    /\ <<"netease", "19723756">> \in DOMAIN playlist_cache
    /\ "netease:1" \in DOMAIN song_metadata_cache

(* ------------------------ the PlaylistRefresher thread ----------------- *)
\* refresh cycles in one run
MaxCycles == 1

\* for platform, playlist_ids in ALLOWED_PLAYLISTS.items()
RfPlatforms == <<"netease", "qq", "kuwo">>

\* a refresher that stores under the key getPlaylist reads
RfKeyDetail(platform, tid) == <<"str", <<"playlist_detail", platform, tid>>>>

\* cache_key = f"{platform}_{tid}"
RfKey(platform, tid) == <<"str", <<platform, tid>>>>

\* an invalidation of the listings only
RfPrefixedListings(k) == HasPrefix(k, "playlists_")

\* k.startswith(('playlists_', 'netease_', 'qq_', 'kuwo_'))
RfPrefixed(k) == \E prefix \in {"playlists_", "netease_", "qq_", "kuwo_"} : HasPrefix(k, prefix)

\* a refresher that saves after the invalidation in every cycle
SaveAfterInvalidateAlways(removed_count) == TRUE

\* if removed_count > 0: save_cache()
SaveAfterInvalidate(removed_count) == removed_count > 0

\* a refresher that gives up the rest of the cycle when one detail fails
AfterDetailFailureGivesUp == "save_final"

\* except Exception inside the loop over the toplists: the failure is logged
\* and the loop goes on
AfterDetailFailure == "toplists"

\* time_module.sleep(PLAYLIST_REFRESH_INTERVAL) returns: a cycle starts
RfWake ==
    /\ rf.pc = "sleep"
    /\ rf.cycle < MaxCycles
    /\ rf' = [NewRf EXCEPT !.pc = "invalidate", !.cycle = rf.cycle, !.started = now,
                           !.platforms = RfPlatforms]
    /\ UNCHANGED <<cacheVars, probe, plreq, cache_lock, gp, lyr, saver, boot, streamVars,
                   diskVars>>

\* with cache_lock: the keys with one of the four prefixes are deleted
RfInvalidate ==
    LET keys_to_remove == {k \in DOMAIN playlist_cache : RfPrefixed(k)}
        removed_count == Cardinality(keys_to_remove) IN
    /\ rf.pc = "invalidate"
    /\ WithLock
    /\ playlist_cache' = [k \in DOMAIN playlist_cache \ keys_to_remove |-> playlist_cache[k]]
    /\ rf' = [rf EXCEPT !.removed_count = removed_count,
                        !.keys_to_remove = keys_to_remove,
                        !.pc = IF SaveAfterInvalidate(removed_count)
                               THEN "save_first" ELSE "platforms"]
    /\ UNCHANGED <<now, stream_url_cache, song_metadata_cache, last_call, sets, probe,
                   plreq, cache_lock, gp, lyr, saver, boot, streamVars, diskVars>>

\* one turn of the loop over the platforms: a platform without allowed
\* playlists is skipped; after the last platform comes the final save
RfPlatform ==
    /\ rf.pc = "platforms"
    /\ rf' = IF rf.platforms = <<>>
             THEN [rf EXCEPT !.pc = "save_final"]
             ELSE IF ALLOWED_PLAYLISTS(Head(rf.platforms)) = {}
             THEN [rf EXCEPT !.platforms = Tail(@)]
             ELSE [rf EXCEPT !.platforms = Tail(@), !.platform = Head(rf.platforms),
                             !.pc = "list"]
    /\ UNCHANGED <<cacheVars, probe, plreq, cache_lock, gp, lyr, saver, boot, streamVars,
                   diskVars>>

\* toplists = tunehub_client.get_toplists(platform): the listing, or an
\* exception that is logged and ends this platform
RfList(outcome) ==
    /\ rf.pc = "list"
    /\ rf' = IF outcome = "ok"
             THEN [rf EXCEPT !.pc = "toplists", !.toplists = Toplists(rf.platform)]
             ELSE [rf EXCEPT !.pc = "platforms", !.failed = @ \cup {<<rf.platform>>}]
    /\ UNCHANGED <<cacheVars, probe, plreq, cache_lock, gp, lyr, saver, boot, streamVars,
                   diskVars>>

\* one turn of the loop over the toplists: tid = toplist.get('id', '');
\* if tid in playlist_ids
RfToplist ==
    /\ rf.pc = "toplists"
    /\ rf' = IF rf.toplists = <<>>
             THEN [rf EXCEPT !.pc = "platforms"]
             ELSE IF Head(rf.toplists).id \in ALLOWED_PLAYLISTS(rf.platform)
             THEN [rf EXCEPT !.pc = "detail"]
             ELSE [rf EXCEPT !.toplists = Tail(@)]
    /\ UNCHANGED <<cacheVars, probe, plreq, cache_lock, gp, lyr, saver, boot, streamVars,
                   diskVars>>

\* detail = tunehub_client.get_toplist_detail(platform, tid): the collection,
\* or an exception that is logged
RfDetail(outcome, name) ==
    LET tid == Head(rf.toplists).id IN
    /\ rf.pc = "detail"
    /\ rf' = IF outcome = "ok"
             THEN [rf EXCEPT !.pc = "store",
                             !.detail = <<ToplistDetail(rf.platform, tid, name)>>]
             ELSE [rf EXCEPT !.pc = AfterDetailFailure, !.toplists = Tail(@),
                             !.failed = @ \cup {RfKey(rf.platform, tid)[2]}]
    /\ UNCHANGED <<cacheVars, probe, plreq, cache_lock, gp, lyr, saver, boot, streamVars,
                   diskVars>>

\* set_cached(playlist_cache, cache_key, {'info': toplist, 'songs': ...})
RfStore ==
    LET toplist == Head(rf.toplists)
        key == RfKey(rf.platform, toplist.id) IN
    /\ rf.pc = "store"
    /\ WithLock
    /\ playlist_cache' =
          set_cached(playlist_cache, key, <<toplist, rf.detail[1].songs>>, now)
    /\ rf' = [rf EXCEPT !.pc = "toplists", !.toplists = Tail(@), !.detail = <<>>,
                        !.stored = @ \cup {key[2]}]
    /\ UNCHANGED <<now, stream_url_cache, song_metadata_cache, last_call, sets, probe,
                   plreq, cache_lock, gp, lyr, saver, boot, streamVars, diskVars>>

RfNext ==
    \/ RfWake
    \/ RfInvalidate
    \/ RfPlatform
    \/ \E outcome \in {"ok", "raise"} : RfList(outcome)
    \/ RfToplist
    \/ \E outcome \in {"ok", "raise"}, name \in Collections : RfDetail(outcome, name)
    \/ RfStore
    \/ \E order \in Orders(DOMAIN song_metadata_cache) : SaveBegin("rf", order)
    \/ SaveDump
    \/ SaveEnd

\* what the playlist tier can hold when a cycle starts: entries of an earlier
\* cycle, of getPlaylists and of getPlaylist
RfOldKeys == {RfKey("netease", "19723756")[2], PlKey("all")[2],
              GpKey(<<"netease", "19723756">>)[2]}

RfInit ==
    /\ now = 0
    /\ playlist_cache \in {[k \in S |-> <<"v1", 0>>] : S \in SUBSET RfOldKeys}
    /\ stream_url_cache = EmptyDict
    /\ song_metadata_cache = set_cached(EmptyDict, <<"str", "netease:1">>, "titled", 0)
    /\ last_call = NoCall
    /\ sets = 0
    /\ probe = ProbeOff
    /\ StreamIdle
    /\ plreq = PlIdle
    /\ BgIdle
    /\ DiskEmpty

RefreshNext == RfNext \/ Tick

SpecRefresh == RfInit /\ [][RefreshNext]_vars

\* stream requests are served while the refresher runs a cycle
LockNext == StreamNext \/ RfNext

SpecLock == StreamInit /\ [][LockNext]_vars

\* C27: a thread that is inside parse_song, get_toplists or
\* get_toplist_detail, or that sleeps between two polls, does not hold
\* cache_lock.
C27_NoLockAcrossUpstream ==
    /\ \A r \in Requests : req[r].pc \in {"parse", "poll"} => cache_lock # Thread("req", r)
    /\ rf.pc \in {"list", "detail"} => cache_lock # Thread("rf", 0)

\* one request is inside parse_song and another sleeps between polls while
\* the refresher holds the lock for its save
C27_Witness ==
    /\ cache_lock = Thread("rf", 0)
    /\ \E r \in Requests : req[r].pc = "parse"
    /\ \E r \in Requests : req[r].pc = "poll"

\* the cycle the refresher has just completed
CycleDone == rf.pc = "sleep" /\ rf.cycle > 0

\* the allow-listed collections a successful listing of platform p returns
Listed(p) ==
    {<<p, Toplists(p)[n].id>> :
        n \in {m \in DOMAIN Toplists(p) : Toplists(p)[m].id \in ALLOWED_PLAYLISTS(p)}}

\* the platforms with allowed playlists
RfActive == {RfPlatforms[n] : n \in {m \in DOMAIN RfPlatforms :
                                       ALLOWED_PLAYLISTS(RfPlatforms[m]) # {}}}

\* the entry under k was written in the cycle
Fresh(k) ==
    /\ k \in DOMAIN playlist_cache
    /\ playlist_cache[k][2] >= rf.started
    /\ playlist_cache[k][2] <= now

\* C28: at the end of a cycle every allow-listed collection of every platform
\* whose listing succeeded has either failed itself or been refreshed, whatever
\* failed before it, and the snapshot saved last holds the tiers as the cycle
\* left them.
C28_FailuresAreIndependent ==
    CycleDone =>
        /\ \A p \in RfActive : <<p>> \notin rf.failed =>
               \A k \in Listed(p) : k \in rf.failed \/ (k \in rf.stored /\ Fresh(k))
        /\ cache_file = <<Snapshot>>

\* a cycle in which the first collection failed, the second was refreshed and
\* the snapshot was saved
C28_Witness ==
    /\ CycleDone
    /\ <<"netease", "19723756">> \in rf.failed
    /\ <<"netease", "3778678">> \in rf.stored
    /\ cache_file = <<Snapshot>>

\* C29 as stated: save_cache is called one time per cycle.
C29_Original == CycleDone => rf.saves = 1

\* C29 amended: save_cache is called once after the repopulation, and once
\* more right after the invalidation when the invalidation removed a key.
C29_SavesPerCycle ==
    /\ CycleDone =>
          /\ rf.saves = IF rf.removed_count > 0 THEN 2 ELSE 1
          /\ cache_file = <<Snapshot>>
    /\ rf.pc \in {"platforms", "list", "toplists", "detail", "store", "save_final"} =>
          rf.saves = IF rf.removed_count > 0 THEN 1 ELSE 0

\* a cycle that saved twice
C29_Witness == CycleDone /\ rf.saves = 2 /\ rf.stored # {}

\* C30: nothing is stored in a cycle before its invalidation, so every entry
\* stored in the cycle is still there; and after a cycle without a failure
\* the tier holds an entry '<platform>_<id>' written in that cycle for every
\* allow-listed collection the listings returned.
C30_RepopulatedAfterInvalidation ==
    /\ rf.pc \in {"sleep", "invalidate", "save_first"} /\ ~CycleDone => rf.stored = {}
    /\ \A k \in rf.stored : Fresh(k)
    /\ CycleDone /\ rf.failed = {} =>
          \A p \in RfActive : \A k \in Listed(p) : Fresh(k)

\* a cycle without a failure that replaced an entry of an earlier cycle
C30_Witness ==
    /\ CycleDone /\ rf.failed = {} /\ rf.removed_count > 0
    /\ rf.started > 0
    /\ \A p \in RfActive : \A k \in Listed(p) : Fresh(k)

(* --------------------- requests until the process exits ---------------- *)
\* the interpreter starts to shut down in an orderly way: the handlers
\* registered with atexit are run, save_cache among them
Exit ==
    /\ boot = "running"
    /\ boot' = "exiting"
    /\ UNCHANGED <<cacheVars, probe, plreq, cache_lock, gp, lyr, saver, rf, streamVars,
                   diskVars>>

\* the server's threads run until the process is gone
Alive == boot # "exited"

ServeNext ==
    \/ Alive /\ StreamNext
    \/ Alive /\ GpStep(1)
    \/ Exit
    \/ \E order \in Orders(DOMAIN song_metadata_cache) : SaveBegin("exit", order)
    \/ SaveDump
    \/ SaveEnd

SpecServe == StreamInit /\ [][ServeNext]_vars

\* request r has resolved its song upstream and is past save_cache
StreamResolved(r) == req[r].pc \in {"release", "done"} /\ req[r].stream_url # ""

\* getPlaylist request i has resolved its playlist upstream and has answered
GpResolved(i) == gp[i].pc = "done" /\ gp[i].called /\ gp[i].resp[1] = "playlist"

\* C25: a request that has resolved its key upstream answers only after a
\* save: for a stream request the file holds its URL entry and its metadata
\* entry before the marker is released, for a getPlaylist request the file
\* holds the playlist entry; and after an orderly shutdown the file holds the
\* tiers as they were at the end.
C25_SavedBeforeAnswer ==
    /\ \A r \in Requests : StreamResolved(r) =>
          /\ cache_file # <<>>
          /\ cache_key(r) \in DOMAIN cache_file[1].streams
          /\ req[r].song_id \in DOMAIN cache_file[1].metadata
    /\ \A i \in Requests : GpResolved(i) =>
          /\ cache_file # <<>>
          /\ GpKey(gp[i].playlist_id)[2] \in DOMAIN cache_file[1].playlists
    /\ boot = "exited" => cache_file = <<Snapshot>>

\* the stream path saves what it has resolved before it releases the marker,
\* and the exit handler saves the tiers as they are at the end
StreamAndExitSave ==
    /\ \A r \in Requests : StreamResolved(r) =>
          /\ cache_file # <<>>
          /\ cache_key(r) \in DOMAIN cache_file[1].streams
          /\ req[r].song_id \in DOMAIN cache_file[1].metadata
    /\ boot = "exited" => cache_file = <<Snapshot>>

(* ----------------- what a request is served from after a cycle -------- *)
\* the key families get_playlists and get_playlist read:
\* f"playlists_filtered_{platform}" and f"playlist_detail_{playlist_id}"
ServedFamilies == {PlKey("all")[2][1], GpKey(<<"netease", "19723756">>)[2][1]}

\* C31: after a completed refresh cycle every entry of the playlist tier under
\* a key a request is served from (a listing key of get_playlists, a detail
\* key of get_playlist) was written during that cycle; none that was written
\* before the invalidation of the cycle is left.
C31_ServedEntriesAreFresh ==
    CycleDone =>
        \A k \in DOMAIN playlist_cache : k[1] \in ServedFamilies => Fresh(k)

(* ------------------- the disk check of the stream endpoint ------------ *)
\* a download has completed for a song and a quality; the metadata tier holds
\* some metadata for the song or none, and the stream-URL tier holds a live
\* URL for the same song and quality or none
DiskFirstInit ==
    /\ now = 0
    /\ playlist_cache = EmptyDict
    /\ last_call = NoCall
    /\ sets = 0
    /\ probe = ProbeOff
    /\ StreamIdle
    /\ plreq = PlIdle
    /\ BgIdle
    /\ budget = MaxBudget
    /\ dir0 = EmptyDict
    /\ \E s \in SongIds, q \in Qualities, wm \in Metadatas :
          LET path == get_audio_cache_path(s, q, wm) IN
          /\ dl = [d \in Downloads |->
                IF d = 1
                THEN [NewDownload EXCEPT !.pc = "done", !.outcome = "renamed",
                         !.song_id = s, !.quality = q, !.metadata = wm,
                         !.chunks = MaxChunks, !.off = MaxChunks, !.audio_path = path,
                         !.fd = <<"dl", "1">>, !.total_size = MaxChunks]
                ELSE NewDownload]
          /\ files = DictSet(EmptyDict, path, <<"dl", "1">>)
          /\ inodes = DictSet(EmptyDict, <<"dl", "1">>,
                              [data |-> [i \in 1..MaxChunks |-> 1], mtime |-> 0])
          /\ \/ song_metadata_cache = EmptyDict
             \/ \E m \in TierMetadatas :
                   song_metadata_cache = set_cached(EmptyDict, <<"str", s>>, m, 0)
          /\ \/ stream_url_cache = EmptyDict
             \/ stream_url_cache =
                   set_cached(EmptyDict, <<"str", StreamKey(s, q)>>, "u1", 0)

SpecDiskFirst == DiskFirstInit /\ [][StreamNext]_vars

\* C32: a request for a song and quality whose complete asset is on disk when
\* the request checks the disk is served from that file, before the
\* stream-URL tier is read and before any upstream call: parse_song is not
\* called for the key, the key is not put in pending_requests and the
\* stream-URL tier stays as it was.
C32_DiskBeforeUrlAndUpstream ==
    \A r \in Requests :
        (PastDisk(r) /\ AssetFor(r)) =>
            /\ req[r].pc = "done"
            /\ req[r].resp = <<"file", dl[1].audio_path>>
            /\ parse_calls[cache_key(r)] = 0
            /\ cache_key(r) \notin pending_requests
            /\ \A k \in DOMAIN stream_url_cache : stream_url_cache[k] = <<"u1", 0>>

\* a request that found a file on disk has answered with it and has read or
\* written neither the stream-URL tier nor pending_requests, and has not
\* called the upstream
DiskHitAnswersAtOnce ==
    [][\A r \in Requests :
          (req[r].pc = "disk" /\ req'[r].pc = "done") =>
              /\ req'[r].resp[1] = "file"
              /\ UNCHANGED <<stream_url_cache, pending_requests, parse_calls>>]_vars

(* ------------------- the three tiers as namespaces -------------------- *)
\* a key string stored in more than one tier
SharedKeys == {PlKey("all")}

\* what save_cache wrote before the restart: every tier holds the shared key
\* or not
SharedDicts == {[k \in S |-> <<"v1", 0>>] : S \in SUBSET {Str(key) : key \in SharedKeys}}

\* the process starts with the file of the previous run and serves cache calls
\* under the shared key; the refresher is followed to the end of its
\* invalidation block (what it does to the tiers after that are set_cached
\* calls)
TiersInit ==
    /\ now = 0
    /\ playlist_cache = EmptyDict
    /\ stream_url_cache = EmptyDict
    /\ song_metadata_cache = EmptyDict
    /\ last_call = NoCall
    /\ sets = 0
    /\ probe = ProbeOff
    /\ pending_requests = {}
    /\ req = [r \in Requests |-> NewRequest]
    /\ parse_calls = [k \in StreamKeys |-> 0]
    /\ marker_hist = [k \in StreamKeys |-> [inserted |-> 0, claimed |-> 0]]
    /\ spawned = {}
    /\ \E p \in SharedDicts, s \in SharedDicts, m \in SharedDicts :
          cache_file = <<[playlists |-> p, streams |-> s, metadata |-> m]>>
    /\ plreq = PlIdle
    /\ cache_lock = Free
    /\ gp = [i \in Requests |-> NewGp]
    /\ lyr = [i \in Requests |-> NewLyr]
    /\ saver = NewSaver
    /\ boot = "start"
    /\ rf = NewRf
    /\ DiskEmpty

TiersNext ==
    \/ LoadCache
    \/ Serving /\ \E name \in TierNames, key \in SharedKeys, ttl \in TTLs :
                     GetCached(name, key, ttl)
    \/ Serving /\ \E name \in TierNames, key \in SharedKeys, data \in Values :
                     SetCached(name, key, data)
    \/ Serving /\ RfWake
    \/ Serving /\ RfInvalidate
    \/ Tick

SpecTiers == TiersInit /\ [][TiersNext]_vars

\* the step is a cache call on the tier last_call' names
CallStep ==
    /\ rf' = rf /\ boot' = boot /\ saver' = saver
    /\ GetStep \/ SetStep

\* C33: the three tiers are independent namespaces. A set_cached and a
\* get_cached (its eviction included) change only the tier they are called
\* on, so an entry under the same key string in another tier stays what it
\* was; the invalidation of the refresher and the purge of load_cache change
\* only the playlist tier.
C33_TiersAreIndependent ==
    [][/\ CallStep =>
             \A name \in TierNames \ {last_call'.tier} : TierNext(name) = Tier(name)
       /\ (rf.pc = "invalidate" /\ rf'.pc # "invalidate") =>
             UNCHANGED <<stream_url_cache, song_metadata_cache>>
       /\ (boot = "start" /\ boot' = "running") =>
             /\ stream_url_cache' = cache_file[1].streams
             /\ song_metadata_cache' = cache_file[1].metadata]_vars

\* after the purge, the invalidation and a set_cached, one key string has no
\* entry in the playlist tier and two different entries in the other tiers
C33_Witness ==
    LET k == Str(PlKey("all")) IN
    /\ rf.removed_count > 0
    /\ last_call.op = "set"
    /\ k \notin DOMAIN playlist_cache
    /\ k \in DOMAIN stream_url_cache
    /\ k \in DOMAIN song_metadata_cache
    /\ stream_url_cache[k] # song_metadata_cache[k]

(* ------------------- the resolvers of one key ------------------------- *)
\* the places of a request between taking the resolver role (by its claim, by
\* a takeover or after its timeout) and releasing the marker
ResolverPcs == {"parse", "cache_url", "cache_meta", "save", "release"}

\* the requests that are resolvers of key k
Resolvers(k) == {r \in DOMAIN req : req[r].pc \in ResolverPcs /\ cache_key(r) = k}

\* C34: however many requests ask for the same key at the same time, at most
\* two of them are resolvers of the key at once.
C34_AtMostTwoResolvers ==
    \A k \in StreamKeys : Cardinality(Resolvers(k)) <= 2

(* ------------------- upstream calls that never return ----------------- *)
\* the steps of the refresher that the process takes on its own: the sleep
\* ends, the tier is invalidated and written, the file is saved. The two
\* upstream calls are not among them: get_toplists and get_toplist_detail
\* start with _get_method_config, whose requests.get has no timeout, and
\* return only when the upstream answers or closes the connection.
RfOwnStep ==
    \/ RfWake
    \/ RfInvalidate
    \/ RfPlatform
    \/ RfToplist
    \/ RfStore
    \/ \E order \in Orders(DOMAIN song_metadata_cache) : SaveBegin("rf", order)
    \/ SaveDump
    \/ SaveEnd

\* stream requests for one song and quality are served while the refresher
\* runs a cycle
HungNext ==
    \/ \E r \in Requests, s \in SongIds, q \in DiskQualities : ReadMetadata(r, s, q)
    \/ \E r \in Requests : RequestStep(r)
    \/ RfNext

\* every thread keeps running; parse_song returns or raises (requests.post
\* has timeout=15); the upstream calls of the refresher may never return
SpecHung ==
    /\ StreamInit
    /\ [][HungNext]_vars
    /\ \A r \in Requests : WF_vars(RequestStep(r))
    /\ WF_vars(RfOwnStep)

\* every stream resolver releases its marker in the end
ResolversRelease ==
    \A r \in Requests : (req[r].pc \in ResolverPcs) ~> (req[r].pc = "done")

\* C35: whatever the upstream does, a never answered call included, every
\* stream resolver releases its marker in the end, and every refresh cycle
\* that has started reaches its end-of-cycle save and ends.
C35_ResolutionsEnd ==
    /\ \A r \in Requests : (req[r].pc \in ResolverPcs) ~> (req[r].pc = "done")
    /\ (rf.pc # "sleep") ~> CycleDone

(* ------------------- the marker during a resolution ------------------- *)
\* C36: while a request is a resolver of a key, from taking the role to its
\* own release, the key is in pending_requests: no release by another request
\* removes it, also when the resolver is a waiter that went on after its
\* timeout.
C36_MarkerCoversResolution ==
    \A r \in Requests : req[r].pc \in ResolverPcs => cache_key(r) \in pending_requests

(* ------------------------- two sweeps at once ------------------------- *)
\* a directory of at most NumFiles finished files with distinct modification
\* times, and possibly a temporary file; both download threads have just
\* renamed their files and call cleanup_audio_cache()
RaceInit ==
    /\ now = NumFiles
    /\ playlist_cache = EmptyDict
    /\ stream_url_cache = EmptyDict
    /\ song_metadata_cache = EmptyDict
    /\ last_call = NoCall
    /\ sets = 0
    /\ probe = ProbeOff
    /\ StreamIdle
    /\ plreq = PlIdle
    /\ BgIdle
    /\ budget \in 0..MaxBudget
    /\ dl = [d \in Downloads |->
                [NewDownload EXCEPT !.pc = "sweep_size", !.outcome = "renamed"]]
    /\ \E size \in [OldFiles \cup {OldTmp} -> 0..MaxChunks],
          age \in [OldFiles -> 0..(NumFiles - 1)] :
          /\ \A f, g \in OldFiles : f # g => age[f] # age[g]
          /\ LET mtime == [f \in OldFiles \cup {OldTmp} |->
                             IF f = OldTmp THEN NumFiles - 1 ELSE age[f]]
                 present == {f \in OldFiles \cup {OldTmp} : size[f] > 0} IN
             /\ files = [f \in present |-> <<"inode", f>>]
             /\ inodes = [i \in {<<"inode", f>> : f \in present} |->
                             [data |-> [c \in 1..size[i[2]] |-> 1], mtime |-> mtime[i[2]]]]
             /\ dir0 = [f \in present |-> [size |-> size[f], mtime |-> mtime[f]]]

SpecRace == RaceInit /\ [][SweepNext]_vars

\* both sweeps have ended
BothSwept == \A d \in Downloads : dl[d].pc = "done"

\* the files the two sweeps deleted
RemovedByBoth == UNION {dl[d].removed : d \in Downloads}

\* C37: two sweeps that run at the same time delete together what one sweep
\* alone deletes, the least oldest-first prefix that brings the total within
\* the budget, and neither is ended by the other's deletions.
C37_ConcurrentSweepsLikeOne ==
    /\ \A d \in Downloads : dl[d].outcome # "sweep_aborted"
    /\ (BothSwept /\ Dir0Size(DOMAIN dir0) > budget /\ Enough # {}) =>
           RemovedByBoth = Oldest(LeastEnough)

\* the first half alone: two sweeps that both ran to their end deleted what
\* one alone deletes (the model checker refutes this half on its own)
NoOverDeletion ==
    (BothSwept /\ (\A d \in Downloads : dl[d].outcome = "renamed")
               /\ Dir0Size(DOMAIN dir0) > budget /\ Enough # {}) =>
        RemovedByBoth = Oldest(LeastEnough)

(* ------------------- save, restart, load ------------------------------ *)
\* the cache calls of the first run: a tier and a key of that tier
RunCalls ==
    {<<"playlists", PlKey("all")>>, <<"playlists", RfKey("netease", "19723756")>>,
     <<"streams", <<"str", StreamKey("netease:1", "320k")>>>>,
     <<"metadata", <<"str", "netease:1">>>>}

\* the process is started again after an orderly exit: the module is
\* initialised anew, the file and the wall clock are what they were
Restart ==
    /\ boot = "exited"
    /\ boot' = "start"
    /\ playlist_cache' = EmptyDict
    /\ stream_url_cache' = EmptyDict
    /\ song_metadata_cache' = EmptyDict
    /\ last_call' = NoCall
    /\ UNCHANGED <<now, sets, probe, plreq, cache_lock, gp, lyr, saver, rf, streamVars,
                   diskVars>>

\* the run that wrote the file has not ended yet
FirstRun == boot = "running" /\ saver.pc = "idle"

\* the run that loaded the file
SecondRun == boot = "running" /\ saver.pc = "written"

\* a run sets entries while the clock advances and exits in an orderly way;
\* the next run loads the file and reads entries
RoundTripNext ==
    \/ FirstRun /\ \E c \in RunCalls, data \in Values : SetCached(c[1], c[2], data)
    \/ FirstRun /\ Exit
    \/ \E order \in Orders(DOMAIN song_metadata_cache) : SaveBegin("exit", order)
    \/ SaveDump
    \/ SaveEnd
    \/ Restart
    \/ LoadCache
    \/ SecondRun /\ \E c \in RunCalls, ttl \in TTLs : GetCached(c[1], c[2], ttl)
    \/ boot = "running" /\ Tick

SpecRoundTrip == CacheInit /\ [][RoundTripNext]_vars

\* the tiers as they were when save_cache was called
Saved == CHOOSE snap \in saver.seen : TRUE

EmptyListing == <<<<>>, 0>>

\* the playlist tier when a cycle starts: entries of an earlier cycle, and
\* possibly the empty listing of a failed getPlaylists request
ServeRfInit ==
    /\ now = 0
    /\ \E S \in SUBSET {RfKey("netease", "19723756")[2], RfKey("netease", "3778678")[2]},
          L \in SUBSET {PlKey("netease")[2]} :
          playlist_cache = [k \in S \cup L |-> IF k \in L THEN EmptyListing ELSE <<"v1", 0>>]
    /\ stream_url_cache = EmptyDict
    /\ song_metadata_cache = set_cached(EmptyDict, <<"str", "netease:1">>, "titled", 0)
    /\ last_call = NoCall
    /\ sets = 0
    /\ probe = ProbeOff
    /\ StreamIdle
    /\ plreq = PlIdle
    /\ BgIdle
    /\ DiskEmpty

\* a getPlaylists request is served while the refresher runs a cycle
ServeRfNext ==
    \/ RfNext
    \/ PlCheck(1, "netease")
    \/ \E outcome \in {"ok", "failed"} : PlFetch(1, outcome)
    \/ PlStore(1)
    \/ Tick

SpecRefreshServe == ServeRfInit /\ [][ServeRfNext]_vars

\* the cycle is past its invalidation
Invalidated == rf.pc \notin {"sleep", "invalidate"} \/ CycleDone

\* the '<platform>_<id>' keys of the collections whose refresh failed in the
\* cycle: the detail call failed, or the listing of the platform did
FailedKeys ==
    {k \in rf.failed : Len(k) = 2}
        \cup {<<p, id>> : p \in {q \in RfActive : <<q>> \in rf.failed},
                          id \in UNION {ALLOWED_PLAYLISTS(q) : q \in RfActive}}

\* C39 as stated: after a cycle the key of a collection whose refresh failed
\* is absent, and from the invalidation on every invalidated key is absent
\* until the cycle stores it again.
C39_Original ==
    /\ CycleDone => \A k \in FailedKeys : k \notin DOMAIN playlist_cache
    /\ Invalidated =>
          \A k \in rf.keys_to_remove : k \in DOMAIN playlist_cache => k \in rf.stored

\* C39 amended: after a cycle the key of a collection whose refresh failed is
\* absent, and from the invalidation on every invalidated '<platform>_<id>'
\* key is absent until the cycle stores it again; an invalidated listing key
\* 'playlists_filtered_*' can be back before that, stored after the
\* invalidation by a getPlaylists request.
C39_NoStaleCollection ==
    /\ CycleDone => \A k \in FailedKeys : k \notin DOMAIN playlist_cache
    /\ Invalidated =>
          \A k \in rf.keys_to_remove :
              k \in DOMAIN playlist_cache =>
                  \/ k \in rf.stored /\ Fresh(k)
                  \/ k[1] = "playlists_filtered" /\ plreq[1].pc = "done" /\ Fresh(k)

\* a cycle that removed the entry of a collection and then failed to refresh
\* it has ended, and a listing request stored its listing during the cycle
C39_Witness ==
    /\ CycleDone
    /\ <<"netease", "19723756">> \in rf.keys_to_remove
    /\ <<"netease", "19723756">> \in FailedKeys
    /\ <<"netease", "3778678">> \in rf.stored
    /\ PlKey("netease")[2] \in rf.keys_to_remove
    /\ PlKey("netease")[2] \in DOMAIN playlist_cache

====
